---- MODULE Spec2Model ----
(***************************************************************************)
(* A model of the Devsite -> Hugo documentation converter                  *)
(* (devsite_to_hugo_converter.py) and of the reference-docs sanitizer      *)
(* (convert_reference_docs.py).                                            *)
(*                                                                         *)
(* Text is a sequence of characters, each character a one-character        *)
(* string.  Four characters that a TLA+ string cannot hold are written as  *)
(* their code points: the box-drawing characters "u2514", "u251C" and      *)
(* "u2502", and the backtick "u0060".  The regular expressions of the      *)
(* source are kept as data (a syntax tree per pattern) and matched by a    *)
(* backtracking matcher with the priorities of Python's re module.         *)
(***************************************************************************)
EXTENDS Integers, Sequences, FiniteSets, TLC

VARIABLES
    \* one call of a function of the converter, checked on its own
    called,             \* the function applied to `content` ("none" before the call)
    content,            \* the text handed to it
    result,             \* what it returned
    \* DevsiteToHugoConverter.convert_documentation
    content_mapping,    \* config['content_mapping']: section -> category type
    source,             \* the source tree: relative path -> [raw, mtime]
    output,             \* what is under <output>: path from <output>/content -> file
    dry_run,            \* the arguments of the run in progress, or of the last one
    incremental,
    pc,                 \* "idle", or "loop" inside _convert_content_files
    todo,               \* the files rglob has still to yield
    conversion_stats,
    run,                \* the paths this run converted, skipped, failed on, wrote
    runs,               \* the runs started so far
    clock,              \* the time, for modification times
    touched,            \* the sources modified since the last run ended
    history,            \* the runs that ended, oldest first
    file_size_limit     \* the largest file the process may write (RLIMIT_FSIZE)

batch_vars == <<content_mapping, source, output, dry_run, incremental, pc, todo,
                conversion_stats, run, runs, clock, touched, history, file_size_limit>>
call_vars == <<called, content, result>>
vars == <<called, content, result, content_mapping, source, output, dry_run,
          incremental, pc, todo, conversion_stats, run, runs, clock, touched, history,
          file_size_limit>>

-----------------------------------------------------------------------------
(* Characters and character classes                                        *)

\* Python's \s and str.strip() whitespace, restricted to the ASCII ones
WS == {" ", "\t", "\n", "\r"}

Corner == "u2514"
Branch == "u251C"
Vertical == "u2502"
\* the backtick, which a TLA+ string cannot hold
Backtick == "u0060"

Lower == {"a", "b", "c", "d", "e", "f", "g", "h", "i", "j", "k", "l", "m",
          "n", "o", "p", "q", "r", "s", "t", "u", "v", "w", "x", "y", "z"}
Upper == {"A", "B", "C", "D", "E", "F", "G", "H", "I", "J", "K", "L", "M",
          "N", "O", "P", "Q", "R", "S", "T", "U", "V", "W", "X", "Y", "Z"}
Digit == {"0", "1", "2", "3", "4", "5", "6", "7", "8", "9"}

-----------------------------------------------------------------------------
(* Regular expressions as syntax trees                                     *)

Lit(c) == [t |-> "lit", c |-> c]
In(S) == [t |-> "set", s |-> S, neg |-> FALSE]
NotIn(S) == [t |-> "set", s |-> S, neg |-> TRUE]
\* `.` under re.DOTALL, and `.` without it
AnyChar == NotIn({})
Dot == NotIn({"\n"})
Seq_(rs) == [t |-> "seq", rs |-> rs]
Alt(rs) == [t |-> "alt", rs |-> rs]
Rep(r, min, max, greedy) ==
    [t |-> "rep", r |-> r, min |-> min, max |-> max, greedy |-> greedy]
\* max = -1: unbounded
Star(r) == Rep(r, 0, -1, TRUE)
Plus(r) == Rep(r, 1, -1, TRUE)
Opt(r) == Rep(r, 0, 1, TRUE)
LazyStar(r) == Rep(r, 0, -1, FALSE)
Grp(k, r) == [t |-> "grp", k |-> k, r |-> r]
\* `^` and `$`; ml: re.MULTILINE
Bol(ml) == [t |-> "bol", ml |-> ml]
Eol(ml) == [t |-> "eol", ml |-> ml]
\* (?<!c)
NotAfter(c) == [t |-> "nlb", c |-> c]
\* a literal string
Str(cs) == [t |-> "seq", rs |-> [i \in 1..Len(cs) |-> Lit(cs[i])]]

\* the groups of a pattern number 1..MaxGroups
MaxGroups == 3
NoCaps == [k \in 1..MaxGroups |-> <<0, 0>>]
NoMatch == [ok |-> FALSE, st |-> 0, en |-> 0, caps |-> NoCaps]

\* n, a literal or a character set, takes the character c
Takes(n, c) == IF n.t = "lit" THEN c = n.c ELSE (c \in n.s) # n.neg

\* the first of two attempts that succeeds
OrElse(first, second) == IF first.ok THEN first ELSE second

RECURSIVE M(_, _, _, _)
RECURSIVE FirstOf(_, _, _, _, _, _, _)

\* The backtracking matcher: `stack` is what is left to match of the
\* pattern, i the position in s, caps the groups closed so far.  The first
\* alternative that lets the rest succeed wins; a greedy repetition tries
\* one more round before stopping, a lazy one stops before trying one more.
\* The result's `en` is the position after the match.
M(s, stack, i, caps) ==
    IF stack = <<>> THEN [ok |-> TRUE, st |-> 0, en |-> i, caps |-> caps]
    ELSE LET n == Head(stack)
             rest == Tail(stack)
             has == i <= Len(s)
         IN CASE n.t = "lit" ->
                   IF has /\ s[i] = n.c THEN M(s, rest, i + 1, caps) ELSE NoMatch
              [] n.t = "set" ->
                   IF has /\ ((s[i] \in n.s) # n.neg)
                   THEN M(s, rest, i + 1, caps) ELSE NoMatch
              [] n.t = "seq" -> M(s, n.rs \o rest, i, caps)
              [] n.t = "alt" ->
                   IF n.rs = <<>> THEN NoMatch
                   ELSE OrElse(M(s, <<Head(n.rs)>> \o rest, i, caps),
                               M(s, <<Alt(Tail(n.rs))>> \o rest, i, caps))
              [] n.t = "rep" /\ n.r.t \in {"lit", "set"} ->
                   \* a repeated single character: the longest run is
                   \* found first, then the counts are tried in order
                   LET left == Len(s) - i + 1
                       limit == IF n.max = -1 \/ n.max > left THEN left ELSE n.max
                       longest == CHOOSE k \in 0..limit :
                                 /\ \A j \in i..(i + k - 1) : Takes(n.r, s[j])
                                 /\ k = limit \/ ~Takes(n.r, s[i + k])
                   IN IF longest < n.min THEN NoMatch
                      ELSE FirstOf(s, rest, i, caps, n.min, longest, n.greedy)
              [] n.t = "rep" /\ n.r.t \notin {"lit", "set"} ->
                   LET again == Rep(n.r, IF n.min > 0 THEN n.min - 1 ELSE 0,
                                    IF n.max > 0 THEN n.max - 1 ELSE n.max,
                                    n.greedy)
                       more == M(s, <<n.r, again>> \o rest, i, caps)
                       stop == M(s, rest, i, caps)
                   IN IF n.max = 0 THEN stop
                      ELSE IF n.min > 0 THEN more
                      ELSE IF n.greedy THEN OrElse(more, stop)
                      ELSE OrElse(stop, more)
              [] n.t = "grp" ->
                   M(s, <<n.r, [t |-> "gend", k |-> n.k, st |-> i]>> \o rest, i, caps)
              [] n.t = "gend" ->
                   M(s, rest, i, [caps EXCEPT ![n.k] = <<n.st, i>>])
              [] n.t = "bol" ->
                   IF i = 1 \/ (n.ml /\ s[i - 1] = "\n")
                   THEN M(s, rest, i, caps) ELSE NoMatch
              [] n.t = "eol" ->
                   IF \/ i = Len(s) + 1
                      \/ (i = Len(s) /\ s[i] = "\n")
                      \/ (n.ml /\ has /\ s[i] = "\n")
                   THEN M(s, rest, i, caps) ELSE NoMatch
              [] n.t = "nlb" ->
                   IF i > 1 /\ s[i - 1] = n.c THEN NoMatch
                   ELSE M(s, rest, i, caps)

\* the rest of the pattern after lo..hi characters of a repetition: the
\* first count that lets it succeed, the greedy from hi down, the lazy from
\* lo up
FirstOf(s, rest, i, caps, lo, hi, greedy) ==
    IF lo > hi THEN NoMatch
    ELSE IF lo = hi THEN M(s, rest, i + lo, caps)
    ELSE IF greedy
         THEN OrElse(FirstOf(s, rest, i, caps, (lo + hi) \div 2 + 1, hi, greedy),
                     FirstOf(s, rest, i, caps, lo, (lo + hi) \div 2, greedy))
    ELSE OrElse(FirstOf(s, rest, i, caps, lo, (lo + hi) \div 2, greedy),
                FirstOf(s, rest, i, caps, (lo + hi) \div 2 + 1, hi, greedy))

\* the match of re that starts at position i of s, if any
MatchAt(re, s, i) == [M(s, <<re>>, i, NoCaps) EXCEPT !.st = i]

\* re.match
ReMatch(re, s) == MatchAt(re, s, 1)

RECURSIVE SearchIn(_, _, _, _)
\* the match that starts first in lo..hi
SearchIn(re, s, lo, hi) ==
    IF lo > hi THEN NoMatch
    ELSE IF lo = hi THEN MatchAt(re, s, lo)
    ELSE OrElse(SearchIn(re, s, lo, (lo + hi) \div 2),
                SearchIn(re, s, (lo + hi) \div 2 + 1, hi))

SearchFrom(re, s, i) == SearchIn(re, s, i, Len(s) + 1)

\* re.search
ReSearch(re, s) == SearchFrom(re, s, 1)

RECURSIVE FindFrom(_, _, _)
RECURSIVE MatchesFrom(_, _, _)
\* re.finditer: the leftmost non-overlapping matches, in order.  No pattern
\* of the program matches the empty string, so a match always advances.
FindFrom(re, s, i) == MatchesFrom(re, s, SearchFrom(re, s, i))

\* m, the next match, followed by the matches after it
MatchesFrom(re, s, m) ==
    IF ~m.ok \/ m.en = m.st THEN <<>>
    ELSE <<m>> \o FindFrom(re, s, m.en)

FindAll(re, s) == FindFrom(re, s, 1)

\* match.group(k) and match.group(0)
Group(s, m, k) == SubSeq(s, m.caps[k][1], m.caps[k][2] - 1)
Whole(s, m) == SubSeq(s, m.st, m.en - 1)

RECURSIVE Concat(_)
\* ''.join(parts)
Concat(parts) == IF parts = <<>> THEN <<>> ELSE Head(parts) \o Concat(Tail(parts))

\* text with its matches ms replaced by what F makes of them
Spliced(text, ms, F(_, _)) ==
    Concat([k \in 1..Len(ms) |->
              \* what lies between the match before and match k, and match k replaced
              SubSeq(text, IF k = 1 THEN 1 ELSE ms[k - 1].en, ms[k].st - 1) \o F(text, ms[k])])
    \o SubSeq(text, IF ms = <<>> THEN 1 ELSE ms[Len(ms)].en, Len(text))

\* re.sub(re, repl, s) with repl a function of the match: F(s, m).  The text
\* is the string the call is handed, not the expression that yields it.
ReSub(re, F(_, _), s) ==
    CHOOSE out \in {Spliced(text, FindAll(re, text), F) : text \in {s}} : TRUE

Empty(s, m) == <<>>

-----------------------------------------------------------------------------
(* str methods                                                             *)

StartsWith(s, p) == Len(s) >= Len(p) /\ SubSeq(s, 1, Len(p)) = p
EndsWith(s, p) == Len(s) >= Len(p) /\ SubSeq(s, Len(s) - Len(p) + 1, Len(s)) = p

\* p in s
Contains(s, p) == \E i \in 1..(Len(s) - Len(p) + 1) : SubSeq(s, i, i + Len(p) - 1) = p

\* s.lstrip(cs) and s.rstrip(cs)
LStrip(s, cs) ==
    LET k == CHOOSE j \in 0..Len(s) :
                 (\A i \in 1..j : s[i] \in cs) /\ (j = Len(s) \/ s[j + 1] \notin cs)
    IN SubSeq(s, k + 1, Len(s))

RStrip(s, cs) ==
    LET k == CHOOSE j \in 0..Len(s) :
                 (\A i \in (j + 1)..Len(s) : s[i] \in cs) /\ (j = 0 \/ s[j] \notin cs)
    IN SubSeq(s, 1, k)

\* s.strip()
Strip(s) == RStrip(LStrip(s, WS), WS)

RECURSIVE Replace(_, _, _)
\* s.replace(old, new), old not empty
Replace(s, old, new) ==
    IF ~Contains(s, old) THEN s
    ELSE LET i == CHOOSE j \in 1..(Len(s) - Len(old) + 1) :
                      /\ SubSeq(s, j, j + Len(old) - 1) = old
                      /\ \A k \in 1..(j - 1) : SubSeq(s, k, k + Len(old) - 1) # old
         IN SubSeq(s, 1, i - 1) \o new \o Replace(SubSeq(s, i + Len(old), Len(s)), old, new)

RECURSIVE Split(_, _)
\* s.split(c) for a one-character separator: always at least one piece
Split(s, c) ==
    IF \A i \in 1..Len(s) : s[i] # c THEN <<s>>
    ELSE LET i == CHOOSE j \in 1..Len(s) :
                      s[j] = c /\ \A k \in 1..(j - 1) : s[k] # c
         IN <<SubSeq(s, 1, i - 1)>> \o Split(SubSeq(s, i + 1, Len(s)), c)

RECURSIVE Join(_, _)
\* sep.join(parts)
Join(parts, sep) ==
    IF parts = <<>> THEN <<>>
    ELSE IF Len(parts) = 1 THEN parts[1]
    ELSE parts[1] \o sep \o Join(Tail(parts), sep)

\* s.count(c) for a one-character c
Count(s, c) == Cardinality({i \in 1..Len(s) : s[i] = c})

ToLower(c) ==
    IF c \in Upper
    THEN CHOOSE l \in Lower :
           \E i \in 1..26 :
             /\ <<"A", "B", "C", "D", "E", "F", "G", "H", "I", "J", "K", "L", "M",
                  "N", "O", "P", "Q", "R", "S", "T", "U", "V", "W", "X", "Y", "Z">>[i] = c
             /\ <<"a", "b", "c", "d", "e", "f", "g", "h", "i", "j", "k", "l", "m",
                  "n", "o", "p", "q", "r", "s", "t", "u", "v", "w", "x", "y", "z">>[i] = l
    ELSE c

\* s.lower()
LowerStr(s) == [i \in 1..Len(s) |-> ToLower(s[i])]

-----------------------------------------------------------------------------
(* DevsiteToHugoConverter._convert_internal_links                          *)

\* r'\[([^\]]+)\]\(([^)]+)\)'
link_pattern ==
    Seq_(<<Lit("["), Grp(1, Plus(NotIn({"]"}))), Lit("]"), Lit("("),
           Grp(2, Plus(NotIn({")"}))), Lit(")")>>)

ExternalSchemes ==
    { <<"h", "t", "t", "p", ":", "/", "/">>,
      <<"h", "t", "t", "p", "s", ":", "/", "/">>,
      <<"m", "a", "i", "l", "t", "o", ":">>,
      <<"t", "e", "l", ":">>,
      <<"f", "t", "p", ":", "/", "/">> }

DotMd == <<".", "m", "d">>

\* re.sub(r'\s+', '', link_url)
CleanUrl(url) == ReSub(Plus(In(WS)), Empty, url)

\* only the web schemes are taken for external
IsWebUrl(link_url) ==
    \/ StartsWith(link_url, <<"h", "t", "t", "p", ":", "/", "/">>)
    \/ StartsWith(link_url, <<"h", "t", "t", "p", "s", ":", "/", "/">>)

IsExternal(link_url) == \E p \in ExternalSchemes : StartsWith(link_url, p)

IsAnchor(link_url) == StartsWith(link_url, <<"#">>)

\* the two prefix removals shared by the .md and the directory branch
StripLeading(p) ==
    LET p1 == IF StartsWith(p, <<".", "/">>) THEN SubSeq(p, 3, Len(p)) ELSE p
    IN IF StartsWith(p1, <<"/">>) THEN Tail(p1) ELSE p1

MdTarget(link_url) == StripLeading(Replace(link_url, DotMd, <<>>))

LastSegment(link_url) ==
    LET parts == Split(link_url, "/") IN parts[Len(parts)]

IsDirectoryLink(link_url) ==
    /\ \E i \in 1..Len(link_url) : link_url[i] = "/"
    /\ \A i \in 1..Len(LastSegment(link_url)) : LastSegment(link_url)[i] # "."

DirTarget(link_url) == StripLeading(RStrip(link_url, {"/"}))

Link(link_text, target) ==
    <<"[">> \o link_text \o <<"]", "(", "/">> \o target \o <<"/", ")">>

replace_link(s, match) ==
    LET link_text == Group(s, match, 1)
        link_url == CleanUrl(Group(s, match, 2))
    IN IF IsExternal(link_url) THEN Whole(s, match)
       ELSE IF IsAnchor(link_url) THEN Whole(s, match)
       ELSE IF EndsWith(link_url, DotMd) THEN Link(link_text, MdTarget(link_url))
       ELSE IF IsDirectoryLink(link_url) THEN Link(link_text, DirTarget(link_url))
       ELSE Whole(s, match)

\* link_pattern is applied with re.DOTALL, which changes nothing: it has no `.`
_convert_internal_links(s) == ReSub(link_pattern, replace_link, s)

-----------------------------------------------------------------------------
(* convert_reference_docs.sanitize_for_mdx                                 *)

BS == "\\"
IdChars == Lower \cup Upper \cup Digit \cup {"_", "-"}

DigitStr == <<"0", "1", "2", "3", "4", "5", "6", "7", "8", "9">>

RECURSIVE IntToStr(_)
\* str(n) for n >= 0
IntToStr(n) ==
    IF n < 10 THEN <<DigitStr[n + 1]>>
    ELSE IntToStr(n \div 10) \o <<DigitStr[(n % 10) + 1]>>

RECURSIVE SplitLines(_)
\* str.splitlines(): a line ends at "\n", "\r" or "\r\n"; a final line
\* break opens no further line
SplitLines(s) ==
    IF s = <<>> THEN <<>>
    ELSE IF \A i \in 1..Len(s) : s[i] \notin {"\n", "\r"} THEN <<s>>
    ELSE LET i == CHOOSE j \in 1..Len(s) :
                      s[j] \in {"\n", "\r"} /\ \A k \in 1..(j - 1) : s[k] \notin {"\n", "\r"}
             skip == IF s[i] = "\r" /\ i < Len(s) /\ s[i + 1] = "\n" THEN 2 ELSE 1
         IN <<SubSeq(s, 1, i - 1)>> \o SplitLines(SubSeq(s, i + skip, Len(s)))

\* r"^#\s+.+"
first_heading_pattern ==
    Seq_(<<Bol(FALSE), Lit("#"), Plus(In(WS)), Plus(Dot)>>)

\* r"\{\%.*?\%\}" and r"\{\{.*?\}\}"
percent_pattern ==
    Seq_(<<Lit("{"), Lit("%"), LazyStar(Dot), Lit("%"), Lit("}")>>)
interp_pattern ==
    Seq_(<<Lit("{"), Lit("{"), LazyStar(Dot), Lit("}"), Lit("}")>>)

StripTemplates(ln) ==
    LET l1 == IF Contains(ln, <<"{", "%">>) THEN ReSub(percent_pattern, Empty, ln) ELSE ln
    IN IF Contains(l1, <<"{", "{">>) THEN ReSub(interp_pattern, Empty, l1) ELSE l1

\* r'\]\(([^)>]+)>[^\]]*\]\('  ->  r'](\1]('
broken_link_pattern ==
    Seq_(<<Lit("]"), Lit("("), Grp(1, Plus(NotIn({")", ">"}))), Lit(">"),
           Star(NotIn({"]"})), Lit("]"), Lit("(")>>)
BrokenLinkRepl(s, m) == <<"]", "(">> \o Group(s, m, 1) \o <<"]", "(">>

\* r'\]\(([^)]+)\)'
link_target_pattern ==
    Seq_(<<Lit("]"), Lit("("), Grp(1, Plus(NotIn({")"}))), Lit(")")>>)

fix_markdown_link_html(s, m) ==
    LET url == Group(s, m, 1)
        cut == IF (\E i \in 1..Len(url) : url[i] = ">")
                  /\ (\E i \in 1..Len(url) : url[i] = "<")
               THEN Split(url, ">")[1] ELSE url
        esc == Replace(Replace(cut, <<"<">>, <<BS, "<">>), <<">">>, <<BS, ">">>)
    IN <<"]", "(">> \o esc \o <<")">>

RepairLinks(ln) ==
    ReSub(link_target_pattern, fix_markdown_link_html,
          ReSub(broken_link_pattern, BrokenLinkRepl, ln))

EscCodeOpen == <<BS, "<", "c", "o", "d", "e", BS, ">">>
EscCodeClose == <<BS, "<", "/", "c", "o", "d", "e", BS, ">">>
EscAClose == <<BS, "<", "/", "a", BS, ">">>
Href == <<"h", "r", "e", "f", "=">>
HrefHash == <<"h", "r", "e", "f", "=", "\"", "#", "\"">>

\* r'>\\\<code\\\>([^<]+)\\\</code\\\>\\\</a\\\>,\s*\<a\s+href='
escaped_code_anchor_pattern ==
    Seq_(<<Lit(">"), Str(EscCodeOpen), Grp(1, Plus(NotIn({"<"}))),
           Str(EscCodeClose), Str(EscAClose), Lit(","), Star(In(WS)),
           Lit("<"), Lit("a"), Plus(In(WS)), Str(Href)>>)
EscapedCodeAnchorRepl(s, m) ==
    <<">", Backtick>> \o Group(s, m, 1)
    \o <<"(", ")", Backtick, "<", "/", "a", ">", ",", " ", "<", "a", " ">> \o Href

\* r'>\\\<code\\\>'  ->  r'>`<code>'
escaped_code_open_pattern == Seq_(<<Lit(">"), Str(EscCodeOpen)>>)
EscapedCodeOpenRepl(s, m) == <<">", Backtick, "<", "c", "o", "d", "e", ">">>

\* r'\\\</code\\\>\\\</a\\\>'  ->  r'</code>`</a>'
escaped_code_close_pattern == Seq_(<<Str(EscCodeClose), Str(EscAClose)>>)
EscapedCodeCloseRepl(s, m) ==
    <<"<", "/", "c", "o", "d", "e", ">", Backtick, "<", "/", "a", ">">>

\* r'<a\s+href=\)'  ->  r'<a href="#">'
bare_anchor_href_pattern ==
    Seq_(<<Lit("<"), Lit("a"), Plus(In(WS)), Str(Href), Lit(")")>>)
BareAnchorHrefRepl(s, m) == <<"<", "a", " ">> \o HrefHash \o <<">">>

\* r'href=\s*\)'  ->  r'href="#">'
bare_href_pattern == Seq_(<<Str(Href), Star(In(WS)), Lit(")")>>)
BareHrefRepl(s, m) == HrefHash \o <<">">>

RepairKnownTags(ln) ==
    LET l1 == ReSub(escaped_code_anchor_pattern, EscapedCodeAnchorRepl, ln)
        l2 == ReSub(escaped_code_open_pattern, EscapedCodeOpenRepl, l1)
        l3 == ReSub(escaped_code_close_pattern, EscapedCodeCloseRepl, l2)
        l4 == ReSub(bare_anchor_href_pattern, BareAnchorHrefRepl, l3)
    IN ReSub(bare_href_pattern, BareHrefRepl, l4)

\* r"\{([^}]*?:[^}]*)\}"
colon_brace_pattern ==
    Seq_(<<Lit("{"),
           Grp(1, Seq_(<<LazyStar(NotIn({"}"})), Lit(":"), Star(NotIn({"}"}))>>)),
           Lit("}")>>)
ColonBraceRepl(s, m) == <<BS, "{">> \o Group(s, m, 1) \o <<BS, "}">>

\* r"(?<!\\)\{" and r"(?<!\\)\}"
open_brace_pattern == Seq_(<<NotAfter(BS), Lit("{")>>)
close_brace_pattern == Seq_(<<NotAfter(BS), Lit("}")>>)
OpenBraceRepl(s, m) == <<BS, "{">>
CloseBraceRepl(s, m) == <<BS, "}">>

EscapeBraces(ln) ==
    LET l1 == ReSub(colon_brace_pattern, ColonBraceRepl, ln)
        l2 == ReSub(open_brace_pattern, OpenBraceRepl, l1)
    IN ReSub(close_brace_pattern, CloseBraceRepl, l2)

DotHtml == <<".", "h", "t", "m", "l">>
DotMdx == <<".", "m", "d", "x">>

\* r"\(([^)]+)\.html\)"  ->  r"(\1.mdx)"
html_link_pattern ==
    Seq_(<<Lit("("), Grp(1, Plus(NotIn({")"}))), Str(DotHtml), Lit(")")>>)
HtmlLinkRepl(s, m) == <<"(">> \o Group(s, m, 1) \o DotMdx \o <<")">>

\* r'href="([^"]+)\.html"'  ->  r'href="\1.mdx"'
html_href_pattern ==
    Seq_(<<Str(Href), Lit("\""), Grp(1, Plus(NotIn({"\""}))), Str(DotHtml), Lit("\"")>>)
HtmlHrefRepl(s, m) == Href \o <<"\"">> \o Group(s, m, 1) \o DotMdx \o <<"\"">>

\* r"<(https?://[^>]+)>"  ->  r"[\1](\1)"
angle_url_pattern ==
    Seq_(<<Lit("<"),
           Grp(1, Seq_(<<Str(<<"h", "t", "t", "p">>), Opt(Lit("s")),
                         Str(<<":", "/", "/">>), Plus(NotIn({">"}))>>)),
           Lit(">")>>)
AngleUrlRepl(s, m) ==
    <<"[">> \o Group(s, m, 1) \o <<"]", "(">> \o Group(s, m, 1) \o <<")">>

RewriteLinkTargets(ln) ==
    LET l1 == ReSub(html_link_pattern, HtmlLinkRepl, ln)
        l2 == ReSub(html_href_pattern, HtmlHrefRepl, l1)
    IN ReSub(angle_url_pattern, AngleUrlRepl, l2)

Lt == <<"&", "l", "t", ";">>
Gt == <<"&", "g", "t", ";">>
Include == <<"#", "i", "n", "c", "l", "u", "d", "e">>

\* r'#include\s+<([^>]+)>'  ->  r'#include &lt;\1&gt;'
include_pattern ==
    Seq_(<<Str(Include), Plus(In(WS)), Lit("<"), Grp(1, Plus(NotIn({">"}))), Lit(">")>>)
IncludeRepl(s, m) == Include \o <<" ">> \o Lt \o Group(s, m, 1) \o Gt

GuardOperators(ln) ==
    LET l1 == Replace(ln, <<"<", "=">>, Lt \o <<"=">>)
        l2 == Replace(l1, <<">", "=">>, Gt \o <<"=">>)
    IN ReSub(include_pattern, IncludeRepl, l2)

\* r"<([^ >]+)>"  ->  r"\<\1\>"
tag_pattern == Seq_(<<Lit("<"), Grp(1, Plus(NotIn({" ", ">"}))), Lit(">")>>)
TagRepl(s, m) == <<BS, "<">> \o Group(s, m, 1) \o <<BS, ">">>

\* the line's "code context": backticks present, and an even number of them
InCodeContext(ln) == Count(ln, Backtick) > 0 /\ Count(ln, Backtick) % 2 = 0

EscapeTags(ln) == IF ~InCodeContext(ln) THEN ReSub(tag_pattern, TagRepl, ln) ELSE ln

\* r"\[([^\]]+)\]\(/([^)]+)\)"  ->  r"[\1](./\2)"
abs_link_pattern ==
    Seq_(<<Lit("["), Grp(1, Plus(NotIn({"]"}))), Lit("]"), Lit("("), Lit("/"),
           Grp(2, Plus(NotIn({")"}))), Lit(")")>>)
AbsLinkRepl(s, m) ==
    <<"[">> \o Group(s, m, 1) \o <<"]", "(", ".", "/">> \o Group(s, m, 2) \o <<")">>

\* r'href="/([^"]+)"'  ->  r'href="./\1"'
abs_href_pattern ==
    Seq_(<<Str(Href), Lit("\""), Lit("/"), Grp(1, Plus(NotIn({"\""}))), Lit("\"")>>)
AbsHrefRepl(s, m) == Href \o <<"\"", ".", "/">> \o Group(s, m, 1) \o <<"\"">>

RelativizeLinks(ln) ==
    ReSub(abs_href_pattern, AbsHrefRepl, ReSub(abs_link_pattern, AbsLinkRepl, ln))

\* r'style="[^"]*"'
style_pattern ==
    Seq_(<<Str(<<"s", "t", "y", "l", "e", "=", "\"">>), Star(NotIn({"\""})), Lit("\"")>>)

\* r'id="section-([A-Za-z0-9_-]+)"'  ->  r'id="\1"'
section_id_pattern ==
    Seq_(<<Str(<<"i", "d", "=", "\"", "s", "e", "c", "t", "i", "o", "n", "-">>),
           Grp(1, Plus(In(IdChars))), Lit("\"")>>)
SectionIdRepl(s, m) == <<"i", "d", "=", "\"">> \o Group(s, m, 1) \o <<"\"">>

StripPresentation(ln) ==
    ReSub(section_id_pattern, SectionIdRepl, ReSub(style_pattern, Empty, ln))

CustomTagNames ==
    Alt(<<Str(<<"w", "o", "r", "k", "s", "p", "a", "c", "e">>),
          Str(<<"s", "y", "m", "l", "i", "n", "k", "_", "p", "a", "t", "h">>),
          Str(<<"a", "t", "t", "r", "i", "b", "u", "t", "e", "_", "n", "a", "m", "e">>)>>)

\* r"<(workspace|symlink_path|attribute_name)([^>]*)>"  ->  r"\<\1\2\>"
custom_open_pattern ==
    Seq_(<<Lit("<"), Grp(1, CustomTagNames), Grp(2, Star(NotIn({">"}))), Lit(">")>>)
CustomOpenRepl(s, m) ==
    <<BS, "<">> \o Group(s, m, 1) \o Group(s, m, 2) \o <<BS, ">">>

\* r"</(workspace|symlink_path|attribute_name)>"  ->  r"\</\1\>"
custom_close_pattern ==
    Seq_(<<Lit("<"), Lit("/"), Grp(1, CustomTagNames), Lit(">")>>)
CustomCloseRepl(s, m) == <<BS, "<", "/">> \o Group(s, m, 1) \o <<BS, ">">>

EscapeCustomTags(ln) ==
    ReSub(custom_close_pattern, CustomCloseRepl,
          ReSub(custom_open_pattern, CustomOpenRepl, ln))

CodeClose == <<"<", "/", "c", "o", "d", "e", ">">>

EscapeCodeClose(ln) ==
    IF Count(ln, Backtick) % 2 = 1 THEN ln
    ELSE Replace(ln, CodeClose, <<BS>> \o CodeClose)

\* r"\)\>\<code\>([^<]+)\</code\>"
anchor_code_pattern ==
    Seq_(<<Str(<<")", ">", "<", "c", "o", "d", "e", ">">>),
           Grp(1, Plus(NotIn({"<"}))), Str(CodeClose)>>)
AnchorCodeRepl(s, m) ==
    <<")", " ", Backtick, "<", "c", "o", "d", "e", ">">> \o Group(s, m, 1)
    \o CodeClose \o <<Backtick>>

\* r"</a>,\s*<a href="  ->  r"\</a\>, \<a href="
anchor_boundary_pattern ==
    Seq_(<<Str(<<"<", "/", "a", ">", ",">>), Star(In(WS)),
           Str(<<"<", "a", " ">>), Str(Href)>>)
AnchorBoundaryRepl(s, m) ==
    <<BS, "<", "/", "a", BS, ">", ",", " ", BS, "<", "a", " ">> \o Href

\* r'href=\)/[^"\s)]+'  ->  r'href="#"'
bad_href_pattern ==
    Seq_(<<Str(Href), Lit(")"), Lit("/"), Plus(NotIn({"\"", ")"} \cup WS))>>)
BadHrefRepl(s, m) == HrefHash

RepairAnchors(ln) ==
    LET l1 == ReSub(anchor_code_pattern, AnchorCodeRepl, ln)
        l2 == ReSub(anchor_boundary_pattern, AnchorBoundaryRepl, l1)
    IN ReSub(bad_href_pattern, BadHrefRepl, l2)

\* r'^(#+)\s*(.*)\s*\{#([A-Za-z0-9_-]+)\}'
heading_id_pattern ==
    Seq_(<<Bol(FALSE), Grp(1, Plus(Lit("#"))), Star(In(WS)), Grp(2, Star(Dot)),
           Star(In(WS)), Lit("{"), Lit("#"), Grp(3, Plus(In(IdChars))), Lit("}")>>)

\* seen_ids.get(hid, 0)
SeenCount(seen_ids, hid) == IF hid \in DOMAIN seen_ids THEN seen_ids[hid] ELSE 0

\* seen_ids[hid] = cnt
SeenSet(seen_ids, hid, cnt) ==
    [h \in DOMAIN seen_ids \cup {hid} |-> IF h = hid THEN cnt ELSE seen_ids[h]]

\* the line as written, and the registry after it
DedupHeadingId(ln, seen_ids) ==
    LET m == ReMatch(heading_id_pattern, ln)
        hid == Group(ln, m, 3)
        cnt == SeenCount(seen_ids, hid)
        newhid == hid \o <<"-">> \o IntToStr(cnt + 1)
    IN IF ~m.ok THEN [ln |-> ln, seen_ids |-> seen_ids]
       ELSE [ln |-> IF cnt > 0
                    THEN Group(ln, m, 1) \o <<" ">> \o Group(ln, m, 2)
                         \o <<" ", "{", "#">> \o newhid \o <<"}">>
                    ELSE ln,
             seen_ids |-> SeenSet(seen_ids, hid, cnt + 1)]

\* every pass between the first-heading test and the heading-id registry
SanitizeLine(ln) ==
    RepairAnchors(EscapeCodeClose(EscapeCustomTags(StripPresentation(
        RelativizeLinks(EscapeTags(GuardOperators(RewriteLinkTargets(
            EscapeBraces(RepairKnownTags(RepairLinks(StripTemplates(ln))))))))))))

NoIds == [h \in {} |-> 0]

\* the test with the flag left out: every first-level heading is skipped
SkipEveryHeading(skip_first_heading, ln) == ReMatch(first_heading_pattern, ln).ok

\* skip_first_heading and re.match(r"^#\s+.+", ln)
SkipHeading(skip_first_heading, ln) ==
    skip_first_heading /\ ReMatch(first_heading_pattern, ln).ok

RECURSIVE SanitizeLines(_, _, _, _)
\* the loop over the lines: a skipped line disarms the flag and appends
\* nothing
SanitizeLines(lines, out_lines, seen_ids, skip_first_heading) ==
    IF lines = <<>> THEN out_lines
    ELSE LET ln == Head(lines)
             d == DedupHeadingId(SanitizeLine(ln), seen_ids)
         IN IF SkipHeading(skip_first_heading, ln)
            THEN SanitizeLines(Tail(lines), out_lines, seen_ids, FALSE)
            ELSE SanitizeLines(Tail(lines), Append(out_lines, d.ln), d.seen_ids,
                               skip_first_heading)

\* the flag armed for the first line only
SanitizeArmedOnce(md_text) ==
    Join(IF SplitLines(md_text) # <<>> /\ SkipHeading(TRUE, Head(SplitLines(md_text)))
         THEN SanitizeLines(Tail(SplitLines(md_text)), <<>>, NoIds, FALSE)
         ELSE SanitizeLines(SplitLines(md_text), <<>>, NoIds, FALSE), <<"\n">>)

sanitize_for_mdx(md_text) ==
    Join(SanitizeLines(SplitLines(md_text), <<>>, NoIds, TRUE), <<"\n">>)

-----------------------------------------------------------------------------
(* yaml.safe_load, as far as the converter depends on it: a document of    *)
(* unindented block-mapping lines `key: value`, of block-sequence lines    *)
(* `- item`, or one plain scalar that may run over several lines.  A value *)
(* is [kind, v]: "null", "bool", "int" (v its decimal numeral), "date",    *)
(* "str", "list" or "map" (v a function from keys to values).  Anything    *)
(* else is a YAMLError; a date that does not exist is a ValueError, which  *)
(* is not a YAMLError.                                                     *)

YNull == [kind |-> "null", v |-> <<>>]
YBool(b) == [kind |-> "bool", v |-> b]
YInt(numeral) == [kind |-> "int", v |-> numeral]
YStr(text) == [kind |-> "str", v |-> text]
YDate(year, month, day) == [kind |-> "date", v |-> <<year, month, day>>]
YList(items) == [kind |-> "list", v |-> items]
YMap(m) == [kind |-> "map", v |-> m]
EmptyMap == [k \in {} |-> YNull]

Loaded(v) == [outcome |-> "value", v |-> v]
YamlError == [outcome |-> "YAMLError", v |-> YNull]
ValueError == [outcome |-> "ValueError", v |-> YNull]

\* the characters that open something other than a plain scalar
YamlIndicators == {"[", "]", "{", "}", "#", "&", "*", "!", "|", ">", "'", "\"", "%", "@", ",", "?", ":", "-"}

NullWords == {<<"~">>, <<"n", "u", "l", "l">>, <<"N", "u", "l", "l">>, <<"N", "U", "L", "L">>}
TrueWords == {<<"t", "r", "u", "e">>, <<"T", "r", "u", "e">>, <<"y", "e", "s">>, <<"o", "n">>}
FalseWords == {<<"f", "a", "l", "s", "e">>, <<"F", "a", "l", "s", "e">>, <<"n", "o">>, <<"o", "f", "f">>}

DigitValue(c) == CHOOSE n \in 0..9 : DigitStr[n + 1] = c

RECURSIVE ToNat(_, _)
ToNat(digits, base) ==
    IF digits = <<>> THEN 0
    ELSE ToNat(SubSeq(digits, 1, Len(digits) - 1), base) * base
         + DigitValue(digits[Len(digits)])

\* [0-9][0-9][0-9][0-9]-[0-9][0-9]-[0-9][0-9], the date form of the
\* timestamp resolver
timestamp_pattern ==
    Seq_(<<Bol(FALSE), Grp(1, Rep(In(Digit), 4, 4, TRUE)), Lit("-"),
           Grp(2, Rep(In(Digit), 2, 2, TRUE)), Lit("-"),
           Grp(3, Rep(In(Digit), 2, 2, TRUE)), Eol(FALSE)>>)

IsLeap(year) == year % 4 = 0 /\ (year % 100 # 0 \/ year % 400 = 0)

DaysIn(year, month) ==
    IF month \in {4, 6, 9, 11} THEN 30
    ELSE IF month = 2 THEN (IF IsLeap(year) THEN 29 ELSE 28)
    ELSE 31

\* datetime.date(year, month, day) accepts it
ValidDate(year, month, day) ==
    /\ year >= 1
    /\ month \in 1..12
    /\ day \in 1..DaysIn(year, month)

DateOf(text) ==
    LET m == ReMatch(timestamp_pattern, text)
    IN [year |-> ToNat(Group(text, m, 1), 10), month |-> ToNat(Group(text, m, 2), 10),
        day |-> ToNat(Group(text, m, 3), 10)]

\* constructing the scalar raises ValueError
BadScalar(text) ==
    /\ ReMatch(timestamp_pattern, text).ok
    /\ ~ValidDate(DateOf(text).year, DateOf(text).month, DateOf(text).day)

\* a plain scalar resolved to its type
YScalar(text) ==
    IF text = <<>> \/ text \in NullWords THEN YNull
    ELSE IF text \in TrueWords THEN YBool(TRUE)
    ELSE IF text \in FalseWords THEN YBool(FALSE)
    ELSE IF text = <<"0">> \/ (text[1] # "0" /\ \A i \in 1..Len(text) : text[i] \in Digit)
         THEN YInt(text)
    ELSE IF Len(text) > 1 /\ \A i \in 1..Len(text) : text[i] \in {"0", "1", "2", "3", "4", "5", "6", "7"}
         THEN YInt(IntToStr(ToNat(text, 8)))
    ELSE IF ReMatch(timestamp_pattern, text).ok
         THEN YDate(DateOf(text).year, DateOf(text).month, DateOf(text).day)
    ELSE YStr(text)

\* what may follow the first character of a plain scalar
IsContinuation(text) ==
    /\ text # <<>>
    /\ ~Contains(text, <<":", " ">>)
    /\ text[Len(text)] # ":"
    /\ ~Contains(text, <<" ", "#">>)

IsPlain(text) ==
    /\ IsContinuation(text)
    /\ text[1] \notin YamlIndicators

\* `key: value` or `key:`
yaml_entry_pattern ==
    Seq_(<<Bol(FALSE), Grp(1, Plus(NotIn({":"}))), Lit(":"),
           Opt(Seq_(<<Plus(Lit(" ")), Grp(2, Star(Dot))>>)), Eol(FALSE)>>)

EntryKey(line) == Group(line, ReMatch(yaml_entry_pattern, line), 1)
EntryValue(line) == Strip(Group(line, ReMatch(yaml_entry_pattern, line), 2))

IsEntry(line) ==
    /\ ReMatch(yaml_entry_pattern, line).ok
    /\ IsPlain(EntryKey(line))
    /\ YScalar(EntryKey(line)).kind = "str"
    /\ EntryValue(line) = <<>> \/ IsPlain(EntryValue(line))

ItemValue(line) == Strip(SubSeq(line, 2, Len(line)))

IsItem(line) ==
    \/ line = <<"-">>
    \/ StartsWith(line, <<"-", " ">>) /\ IsPlain(ItemValue(line))

\* the lines of a block mapping: entries, and under an entry that has no
\* value the items of its list
IsMapping(lines) ==
    /\ IsEntry(lines[1])
    /\ \A i \in 1..Len(lines) :
          \/ IsEntry(lines[i])
          \/ /\ IsItem(lines[i])
             /\ \/ IsItem(lines[i - 1])
                \/ IsEntry(lines[i - 1]) /\ EntryValue(lines[i - 1]) = <<>>

ItemsOf(lines) == YList([i \in 1..Len(lines) |-> YScalar(ItemValue(lines[i]))])

\* d[key] = value
MapSet(d, key, value) ==
    [k \in DOMAIN d \cup {key} |-> IF k = key THEN value ELSE d[k]]

LastEntry(lines) ==
    CHOOSE i \in 1..Len(lines) :
        IsEntry(lines[i]) /\ \A j \in (i + 1)..Len(lines) : ~IsEntry(lines[j])

RECURSIVE YamlMapOf(_)
RECURSIVE WithEntry(_, _)
\* a later entry of the same key replaces an earlier one
YamlMapOf(lines) == IF lines = <<>> THEN EmptyMap ELSE WithEntry(lines, LastEntry(lines))

\* the entry at `last` with its value, the items under it or its scalar,
\* added to the entries before it
WithEntry(lines, last) ==
    MapSet(YamlMapOf(SubSeq(lines, 1, last - 1)), EntryKey(lines[last]),
           IF last < Len(lines) THEN ItemsOf(SubSeq(lines, last + 1, Len(lines)))
           ELSE YScalar(EntryValue(lines[last])))

IsComment(line) == line # <<>> /\ line[1] = "#"

\* the lines that hold something: not blank, not a comment
ContentLines(lines) == SelectSeq(lines, LAMBDA l : l # <<>> /\ ~IsComment(l))

RECURSIVE Fold(_, _, _)
\* a plain scalar over several lines: a line break folds to a space, the
\* line breaks around b blank lines to b line breaks
Fold(lines, acc, blanks) ==
    IF lines = <<>> THEN acc
    ELSE IF Head(lines) = <<>> THEN Fold(Tail(lines), acc, blanks + 1)
    ELSE Fold(Tail(lines),
              acc \o (IF blanks = 0 THEN <<" ">> ELSE [i \in 1..blanks |-> "\n"])
                  \o Head(lines), 0)

DocStart == <<"-", "-", "-">>

\* nested blocks are outside this model: the lines that hold something
\* start in one column
Indents(split) ==
    {Len(split[i]) - Len(LStrip(split[i], WS)) :
        i \in {j \in 1..Len(split) : Strip(split[j]) # <<>> /\ ~IsComment(Strip(split[j]))}}

\* the lines after the `---` that opens the document, if there is one
AfterDocStart(stripped) ==
    LET holding == {i \in 1..Len(stripped) : stripped[i] # <<>> /\ ~IsComment(stripped[i])}
        first == IF holding = {} THEN 0
                 ELSE CHOOSE i \in holding : \A j \in holding : i <= j
        start == IF first # 0 /\ stripped[first] = DocStart THEN first + 1 ELSE 1
    IN SubSeq(stripped, start, Len(stripped))

\* from the first to the last of the lines that hold something
ScalarLines(rest, lines) ==
    LET from == CHOOSE i \in 1..Len(rest) :
                    rest[i] = lines[1] /\ \A j \in 1..(i - 1) : rest[j] # lines[1]
        upto == CHOOSE i \in 1..Len(rest) :
                    /\ rest[i] = lines[Len(lines)]
                    /\ \A j \in (i + 1)..Len(rest) : rest[j] # lines[Len(lines)]
    IN SubSeq(rest, from, upto)

\* a plain scalar, on one line or folded
LoadScalar(lines, scalar) ==
    IF /\ IsPlain(lines[1])
       /\ \A i \in 1..Len(scalar) : scalar[i] = <<>> \/ IsContinuation(scalar[i])
       /\ \A i \in 1..Len(scalar) : ~IsComment(scalar[i])
    THEN IF Len(lines) = 1
         THEN (IF BadScalar(lines[1]) THEN ValueError ELSE Loaded(YScalar(lines[1])))
         ELSE Loaded(YStr(Fold(Tail(scalar), Head(scalar), 0)))
    ELSE YamlError

\* rest: the lines of the document; lines: those that hold something
LoadDocument(rest, lines) ==
    \* a second document
    IF \E i \in 1..Len(lines) : lines[i] = DocStart THEN YamlError
    ELSE IF lines = <<>> THEN Loaded(YNull)
    ELSE IF IsMapping(lines)
         THEN IF \E i \in 1..Len(lines) :
                    BadScalar(IF IsEntry(lines[i]) THEN EntryValue(lines[i])
                              ELSE ItemValue(lines[i]))
              THEN ValueError
              ELSE Loaded(YMap(YamlMapOf(lines)))
    ELSE IF \A i \in 1..Len(lines) : IsItem(lines[i])
         THEN IF \E i \in 1..Len(lines) : BadScalar(ItemValue(lines[i])) THEN ValueError
              ELSE Loaded(ItemsOf(lines))
    ELSE LoadScalar(lines, ScalarLines(rest, lines))

LoadLines(rest) == LoadDocument(rest, ContentLines(rest))

LoadSplit(split) ==
    IF Cardinality(Indents(split)) > 1 THEN YamlError
    ELSE LoadLines(AfterDocStart([i \in 1..Len(split) |-> Strip(split[i])]))

yaml_safe_load(text) == LoadSplit(Split(text, "\n"))

\* bool(v)
Truthy(v) ==
    CASE v.kind = "null" -> FALSE
      [] v.kind = "bool" -> v.v
      [] v.kind = "int" -> \E i \in 1..Len(v.v) : v.v[i] # "0"
      [] v.kind = "date" -> TRUE
      [] v.kind = "str" -> v.v # <<>>
      [] v.kind = "list" -> v.v # <<>>
      [] v.kind = "map" -> DOMAIN v.v # {}

-----------------------------------------------------------------------------
(* DevsiteToHugoConverter._parse_markdown_file                             *)

\* r'^---\n(.*?)\n---\n(.*)' with re.DOTALL
frontmatter_pattern ==
    Seq_(<<Bol(FALSE), Str(<<"-", "-", "-", "\n">>), Grp(1, LazyStar(AnyChar)),
           Str(<<"\n", "-", "-", "-", "\n">>), Grp(2, Star(AnyChar))>>)

\* `frontmatter or {}` and the body, when the frontmatter loads
Parsed(raw, body, loaded) ==
    CASE loaded.outcome = "value" ->
           [raised |-> FALSE,
            frontmatter |-> IF Truthy(loaded.v) THEN loaded.v ELSE YMap(EmptyMap),
            body |-> body]
      [] loaded.outcome = "YAMLError" ->
           [raised |-> FALSE, frontmatter |-> YMap(EmptyMap), body |-> raw]
      [] loaded.outcome = "ValueError" ->
           [raised |-> TRUE, frontmatter |-> YMap(EmptyMap), body |-> <<>>]

\* what follows the match of frontmatter_pattern
ParseMatched(raw, match) ==
    IF match.ok
    THEN Parsed(raw, Group(raw, match, 2), yaml_safe_load(Group(raw, match, 1)))
    ELSE [raised |-> FALSE, frontmatter |-> YMap(EmptyMap), body |-> raw]

\* (frontmatter, body), or raised when safe_load raises something other
\* than a YAMLError
_parse_markdown_file(raw) == ParseMatched(raw, ReMatch(frontmatter_pattern, raw))

-----------------------------------------------------------------------------
(* DevsiteToHugoConverter._convert_frontmatter                             *)

K_title == <<"t", "i", "t", "l", "e">>
K_description == <<"d", "e", "s", "c", "r", "i", "p", "t", "i", "o", "n">>
K_project_path == <<"p", "r", "o", "j", "e", "c", "t", "_", "p", "a", "t", "h">>
K_book_path == <<"b", "o", "o", "k", "_", "p", "a", "t", "h">>
K_toc == <<"t", "o", "c">>
K_weight == <<"w", "e", "i", "g", "h", "t">>
K_linkTitle == <<"l", "i", "n", "k", "T", "i", "t", "l", "e">>

\* every devsite field maps to the hugo field of the same name
field_mapping == {K_title, K_description, K_project_path, K_book_path, K_toc}

Raised == [raised |-> TRUE, v |-> EmptyMap]
Returned(v) == [raised |-> FALSE, v |-> v]

\* Only a mapping has `in` over keys, subscripts by key and .get(): on a
\* scalar or a list one of the three raises.
_convert_frontmatter(frontmatter) ==
    IF frontmatter.kind # "map" THEN Raised
    ELSE LET fm == frontmatter.v
             mapped == [k \in field_mapping \cap DOMAIN fm |-> fm[k]]
             weighted == MapSet(mapped, K_weight,
                                IF K_weight \in DOMAIN fm THEN fm[K_weight]
                                ELSE YInt(<<"1">>))
         IN Returned(IF K_title \in DOMAIN weighted /\ K_linkTitle \notin DOMAIN weighted
                     THEN MapSet(weighted, K_linkTitle, weighted[K_title])
                     ELSE weighted)

-----------------------------------------------------------------------------
(* DevsiteToHugoConverter._fix_directory_structures                        *)

BoxChars == {Corner, Branch, Vertical}
Fence == <<Backtick, Backtick, Backtick>>
FenceText == Fence \o <<"t", "e", "x", "t">>

\* r'(corner).*?(?:\n.*?[(branch)(corner)(vertical)].*?)*' with re.DOTALL,
\* as group k
TreeRegion(k) ==
    Grp(k, Seq_(<<Lit(Corner), LazyStar(AnyChar),
                  Star(Seq_(<<Lit("\n"), LazyStar(AnyChar), In(BoxChars),
                              LazyStar(AnyChar)>>))>>))

\* r'(following directory structure:?\s*(?:\n|```?)?\s*)(tree region)'
tree_pattern ==
    Seq_(<<Grp(1, Seq_(<<Str(<<"f", "o", "l", "l", "o", "w", "i", "n", "g", " ",
                               "d", "i", "r", "e", "c", "t", "o", "r", "y", " ",
                               "s", "t", "r", "u", "c", "t", "u", "r", "e">>),
                         Opt(Lit(":")), Star(In(WS)),
                         Opt(Alt(<<Lit("\n"),
                                   Seq_(<<Lit(Backtick), Lit(Backtick), Opt(Lit(Backtick))>>)>>)),
                         Star(In(WS))>>)),
           TreeRegion(2)>>)

replace_tree(s, match) ==
    LET intro == Strip(Group(s, match, 1))
        tree_content == Strip(Group(s, match, 2))
    IN intro \o <<"\n", "\n">> \o FenceText \o <<"\n">> \o tree_content
       \o <<"\n">> \o Fence

\* r'(```\s*)(tree region)(```)' with re.DOTALL
inline_tree_pattern ==
    Seq_(<<Grp(1, Seq_(<<Str(Fence), Star(In(WS))>>)), TreeRegion(2), Grp(3, Str(Fence))>>)

fix_inline_tree(s, match) ==
    FenceText \o <<"\n">> \o Strip(Group(s, match, 2)) \o <<"\n">> \o Fence

_fix_directory_structures(s) ==
    ReSub(inline_tree_pattern, fix_inline_tree, ReSub(tree_pattern, replace_tree, s))

-----------------------------------------------------------------------------
(* DevsiteToHugoConverter._add_language_identifiers_to_code_blocks         *)

Text_ == <<"t", "e", "x", "t">>

\* config.get('code_language_patterns'): the table as a sequence of
\* <<language, patterns>> in the table's order, or None
NoPatterns == [none |-> TRUE, table |-> <<>>]
Patterns(table) == [none |-> FALSE, table |-> table]

\* pattern in code_content, for some pattern of the table's i-th language
Hit(table, i, code_content) ==
    \E j \in 1..Len(table[i][2]) : Contains(code_content, table[i][2][j])

\* the first language of the table with a hit, or text: no case for
\* directory structures
LanguageByPatterns(language_patterns, code_content) ==
    IF code_content = <<>> \/ Strip(code_content) = <<>> THEN Returned(Text_)
    ELSE IF \E i \in 1..Len(language_patterns.table) : Hit(language_patterns.table, i, code_content)
         THEN Returned(language_patterns.table[
                  CHOOSE i \in 1..Len(language_patterns.table) :
                     /\ Hit(language_patterns.table, i, code_content)
                     /\ \A h \in 1..(i - 1) : ~Hit(language_patterns.table, h, code_content)][1])
    ELSE Returned(Text_)

\* determine_language; iterating None.items() raises
determine_language(language_patterns, code_content) ==
    LET table == language_patterns.table
        firstHit == CHOOSE i \in 1..Len(table) :
                      /\ Hit(table, i, code_content)
                      /\ \A h \in 1..(i - 1) : ~Hit(table, h, code_content)
    IN IF code_content = <<>> \/ Strip(code_content) = <<>> THEN Returned(Text_)
       ELSE IF \/ StartsWith(Strip(code_content), <<"/">>)
               \/ \E i \in 1..Len(code_content) : code_content[i] \in BoxChars
            THEN Returned(Text_)
       ELSE IF language_patterns.none THEN [raised |-> TRUE, v |-> <<>>]
       ELSE IF \E i \in 1..Len(table) : Hit(table, i, code_content)
            THEN Returned(table[firstHit][1])
       ELSE Returned(Text_)

RECURSIVE SplitLinesKeepEnds(_)
\* str.splitlines(keepends=True)
SplitLinesKeepEnds(s) ==
    IF s = <<>> THEN <<>>
    ELSE IF \A i \in 1..Len(s) : s[i] \notin {"\n", "\r"} THEN <<s>>
    ELSE LET i == CHOOSE j \in 1..Len(s) :
                      s[j] \in {"\n", "\r"} /\ \A k \in 1..(j - 1) : s[k] \notin {"\n", "\r"}
             end == IF s[i] = "\r" /\ i < Len(s) /\ s[i + 1] = "\n" THEN i + 1 ELSE i
         IN <<SubSeq(s, 1, end)>> \o SplitLinesKeepEnds(SubSeq(s, end + 1, Len(s)))

\* the annotated fence emitted for the buffered code_lines
AnnotatedFence(language, fence_indent, code_lines) ==
    LET code_content == RStrip(Concat(code_lines), {"\n", "\r"})
    IN <<fence_indent \o Fence \o language \o <<"\n">>>>
       \o (IF code_content # <<>> THEN <<code_content \o <<"\n">>>> ELSE <<>>)
       \o <<fence_indent \o Fence \o <<"\n">>>>

FenceLanguage(language_patterns, code_lines) ==
    determine_language(language_patterns, RStrip(Concat(code_lines), {"\n", "\r"}))

RECURSIVE AnnotateLines(_, _, _, _, _, _, _)
\* the while loop over lines, and the handling of an unterminated block
AnnotateLines(language_patterns, lines, res, in_code_block, in_unlabeled_block,
              code_lines, fence_indent) ==
    IF lines = <<>>
    THEN IF in_code_block /\ in_unlabeled_block
         THEN LET lang == FenceLanguage(language_patterns, code_lines)
              IN IF lang.raised THEN lang
                 ELSE Returned(Concat(res \o AnnotatedFence(lang.v, fence_indent, code_lines)))
         ELSE Returned(Concat(res))
    ELSE LET line == Head(lines)
             stripped == Strip(line)
             isFence == StartsWith(stripped, Fence)
             after == Strip(SubSeq(stripped, 4, Len(stripped)))
             indent == SubSeq(line, 1, Len(line) - Len(LStrip(line, WS)))
             lang == FenceLanguage(language_patterns, code_lines)
         IN IF ~in_code_block
            THEN IF isFence
                 THEN IF after = <<>>
                      THEN AnnotateLines(language_patterns, Tail(lines), res, TRUE, TRUE,
                                         <<>>, indent)
                      ELSE AnnotateLines(language_patterns, Tail(lines), Append(res, line),
                                         TRUE, FALSE, code_lines, indent)
                 ELSE AnnotateLines(language_patterns, Tail(lines), Append(res, line),
                                    in_code_block, in_unlabeled_block, code_lines,
                                    fence_indent)
            ELSE IF isFence
                 THEN IF in_unlabeled_block
                      THEN IF lang.raised THEN lang
                           ELSE AnnotateLines(language_patterns, Tail(lines),
                                              res \o AnnotatedFence(lang.v, fence_indent, code_lines),
                                              FALSE, FALSE, <<>>, fence_indent)
                      ELSE AnnotateLines(language_patterns, Tail(lines), Append(res, line),
                                         FALSE, in_unlabeled_block, code_lines, fence_indent)
                 ELSE IF in_unlabeled_block
                      THEN AnnotateLines(language_patterns, Tail(lines), res, in_code_block,
                                         in_unlabeled_block, Append(code_lines, line),
                                         fence_indent)
                      ELSE AnnotateLines(language_patterns, Tail(lines), Append(res, line),
                                         in_code_block, in_unlabeled_block, code_lines,
                                         fence_indent)

\* the lines joined again with a line break after each
AnnotateWithFinalNewline(language_patterns, s) ==
    AnnotateLines(language_patterns, SplitLinesKeepEnds(s \o <<"\n">>), <<>>, FALSE, FALSE, <<>>, <<>>)

_add_language_identifiers_to_code_blocks(language_patterns, s) ==
    AnnotateLines(language_patterns, SplitLinesKeepEnds(s), <<>>, FALSE, FALSE, <<>>, <<>>)

-----------------------------------------------------------------------------
(* DevsiteToHugoConverter._convert_body_content                            *)

\* r'\[TOC\]'
toc_pattern == Str(<<"[", "T", "O", "C", "]">>)

\* r'\s*\{:\s*#[^}]+\s*\}' and r'\s*\{:\s*\.[^}]+\s*\}'
AttributePattern(c) ==
    Seq_(<<Star(In(WS)), Lit("{"), Lit(":"), Star(In(WS)), Lit(c),
           Plus(NotIn({"}"})), Star(In(WS)), Lit("}")>>)
anchor_id_pattern == AttributePattern("#")
class_attr_pattern == AttributePattern(".")

\* r'\{\%\s*include\s+[^%]+\%\}'
include_stmt_pattern ==
    Seq_(<<Lit("{"), Lit("%"), Star(In(WS)), Str(<<"i", "n", "c", "l", "u", "d", "e">>),
           Plus(In(WS)), Plus(NotIn({"%"})), Lit("%"), Lit("}")>>)

\* r'<devsite-mathjax[^>]*>.*?</devsite-mathjax>' with re.DOTALL
Mathjax == <<"d", "e", "v", "s", "i", "t", "e", "-", "m", "a", "t", "h", "j", "a", "x">>
mathjax_pattern ==
    Seq_(<<Lit("<"), Str(Mathjax), Star(NotIn({">"})), Lit(">"), LazyStar(AnyChar),
           Lit("<"), Lit("/"), Str(Mathjax), Lit(">")>>)

\* r'^Project:\s*.*$' and r'^Book:\s*.*$' with re.MULTILINE
ReferencePattern(word) ==
    Seq_(<<Bol(TRUE), Str(word), Lit(":"), Star(In(WS)), Star(Dot), Eol(TRUE)>>)
project_pattern == ReferencePattern(<<"P", "r", "o", "j", "e", "c", "t">>)
book_pattern == ReferencePattern(<<"B", "o", "o", "k">>)

\* r'\n\s*\n\s*\n'  ->  '\n\n'
blank_lines_pattern ==
    Seq_(<<Lit("\n"), Star(In(WS)), Lit("\n"), Star(In(WS)), Lit("\n")>>)
TwoNewlines(s, m) == <<"\n", "\n">>

\* r'^\s*\n'
leading_blank_pattern == Seq_(<<Bol(FALSE), Star(In(WS)), Lit("\n")>>)

\* the directives removed and the whitespace cleaned up
CleanBody(body) ==
    LET b1 == ReSub(toc_pattern, Empty, body)
        b2 == ReSub(anchor_id_pattern, Empty, b1)
        b3 == ReSub(class_attr_pattern, Empty, b2)
        b4 == ReSub(include_stmt_pattern, Empty, b3)
        b5 == ReSub(mathjax_pattern, Empty, b4)
        b6 == ReSub(project_pattern, Empty, b5)
        b7 == ReSub(book_pattern, Empty, b6)
        b8 == ReSub(blank_lines_pattern, TwoNewlines, b7)
        b9 == ReSub(leading_blank_pattern, Empty, b8)
    IN Strip(b9)

_convert_body_content(language_patterns, body) ==
    _add_language_identifiers_to_code_blocks(language_patterns,
        _fix_directory_structures(_convert_internal_links(CleanBody(body))))

-----------------------------------------------------------------------------
(* DevsiteToHugoConverter._remove_duplicate_h1_title                       *)

IsBlank(line) == Strip(line) = <<>>

\* the index of the first line whose stripped text starts with '# ', or 0
FirstH1(lines) ==
    IF \E i \in 1..Len(lines) : StartsWith(Strip(lines[i]), <<"#", " ">>)
    THEN CHOOSE i \in 1..Len(lines) :
           /\ StartsWith(Strip(lines[i]), <<"#", " ">>)
           /\ \A j \in 1..(i - 1) : ~StartsWith(Strip(lines[j]), <<"#", " ">>)
    ELSE 0

\* stripped_line[2:].strip()
H1Text(line) == Strip(SubSeq(Strip(line), 3, Len(Strip(line))))

\* the blank lines after the heading stay
KeepBlanksAt(remaining_lines, i) == remaining_lines

RECURSIVE DropBlanksAt(_, _)
\* while i < len(remaining_lines) and remaining_lines[i].strip() == '': pop(i)
DropBlanksAt(remaining_lines, i) ==
    IF i <= Len(remaining_lines) /\ IsBlank(remaining_lines[i])
    THEN DropBlanksAt(SubSeq(remaining_lines, 1, i - 1)
                      \o SubSeq(remaining_lines, i + 1, Len(remaining_lines)), i)
    ELSE remaining_lines

\* the heading stays
KeepHeading(body, frontmatter_title) == Returned(body)

\* frontmatter_title is a YAML value; .lower() exists on a string only
_remove_duplicate_h1_title(body, frontmatter_title) ==
    LET lines == Split(Strip(body), "\n")
        i == FirstH1(lines)
    IN IF ~Truthy(frontmatter_title) THEN Returned(body)
       ELSE IF i = 0 THEN Returned(body)
       ELSE IF frontmatter_title.kind # "str" THEN [raised |-> TRUE, v |-> <<>>]
       ELSE IF LowerStr(H1Text(lines[i])) = LowerStr(frontmatter_title.v)
            THEN Returned(Join(DropBlanksAt(SubSeq(lines, 1, i - 1)
                                            \o SubSeq(lines, i + 1, Len(lines)), i),
                               <<"\n">>))
       ELSE Returned(body)

-----------------------------------------------------------------------------
(* DevsiteToHugoConverter._convert_single_file, up to the write            *)

\* r'^# (.+)$' with re.MULTILINE
h1_pattern ==
    Seq_(<<Bol(TRUE), Lit("#"), Lit(" "), Grp(1, Plus(Dot)), Eol(TRUE)>>)

\* title_from_h1, <<>> when there is none
TitleFromH1(body) ==
    LET h1_match == ReSearch(h1_pattern, body)
    IN IF h1_match.ok THEN Strip(Group(body, h1_match, 1)) ELSE <<>>

Failed == [raised |-> TRUE, frontmatter |-> EmptyMap, body |-> <<>>]

\* hugo_frontmatter['title'] = title_from_h1, when there is no title yet
WithTitle(hugo_frontmatter, title_from_h1) ==
    IF K_title \notin DOMAIN hugo_frontmatter /\ title_from_h1 # <<>>
    THEN MapSet(hugo_frontmatter, K_title, YStr(title_from_h1))
    ELSE hugo_frontmatter

\* hugo_frontmatter and the body without the duplicate title
Assembled(hugo_frontmatter, deduped) ==
    IF deduped.raised THEN Failed
    ELSE [raised |-> FALSE, frontmatter |-> hugo_frontmatter, body |-> deduped.v]

\* from `if 'title' in hugo_frontmatter` on
ConvertTitled(hugo_frontmatter, hugo_body) ==
    IF hugo_body.raised THEN Failed
    ELSE Assembled(hugo_frontmatter,
                   IF K_title \in DOMAIN hugo_frontmatter
                   THEN _remove_duplicate_h1_title(hugo_body.v, hugo_frontmatter[K_title])
                   ELSE hugo_body)

\* from the search for the first H1 on
ConvertMapped(language_patterns, body, converted) ==
    IF converted.raised THEN Failed
    ELSE ConvertTitled(WithTitle(converted.v, TitleFromH1(body)),
                       _convert_body_content(language_patterns, body))

\* from _convert_frontmatter on
ConvertParsed(language_patterns, parsed) ==
    IF parsed.raised THEN Failed
    ELSE ConvertMapped(language_patterns, parsed.body, _convert_frontmatter(parsed.frontmatter))

\* hugo_frontmatter and hugo_body as handed to _generate_hugo_markdown, or
\* raised when a step raises (the caller's except clause then returns False)
Convert(language_patterns, raw) ==
    ConvertParsed(language_patterns, _parse_markdown_file(raw))

-----------------------------------------------------------------------------
(* Text literals                                                           *)

Setup == <<"S", "e", "t", "u", "p">>

\* "---\ntitle: Setup\n---\n# Setup\nSee [here](./other.md) and <https://example.com>.\n"
SetupDoc ==
    <<"-", "-", "-", "\n", "t", "i", "t", "l", "e", ":", " ">> \o Setup
    \o <<"\n", "-", "-", "-", "\n", "#", " ">> \o Setup
    \o <<"\n", "S", "e", "e", " ", "[", "h", "e", "r", "e", "]", "(", ".", "/",
         "o", "t", "h", "e", "r", ".", "m", "d", ")", " ", "a", "n", "d", " ",
         "<", "h", "t", "t", "p", "s", ":", "/", "/", "e", "x", "a", "m", "p",
         "l", "e", ".", "c", "o", "m", ">", ".", "\n">>

\* "# Intro\ntext\n"
PlainDoc == <<"#", " ", "I", "n", "t", "r", "o", "\n", "t", "e", "x", "t", "\n">>

\* "---\nnotes\n---\ntext\n": the frontmatter is a scalar
ScalarDoc ==
    <<"-", "-", "-", "\n", "n", "o", "t", "e", "s", "\n", "-", "-", "-", "\n",
      "t", "e", "x", "t", "\n">>

\* config['code_language_patterns']
DefaultPatterns ==
    Patterns(<< <<<<"p", "y", "t", "h", "o", "n">>, << <<"d", "e", "f", " ">> >> >>,
                <<<<"b", "a", "s", "h">>, << <<"$", " ">> >> >> >>)

-----------------------------------------------------------------------------
(* DevsiteToHugoConverter.convert_documentation                            *)
(*                                                                         *)
(* A path is the tuple of its parts.  A run goes over the markdown files   *)
(* of the source tree in the order rglob yields them, which is any order,  *)
(* one file a step; the run ends with the index files.  Between two runs   *)
(* sources may be modified.                                                *)

MaxFiles == 2
MaxRuns == 2

\* the documents a source tree may hold, each path with its text
Documents ==
    [p \in {<<"docs", "a.md">>, <<"docs", "bad.md">>, <<"guides", "b.md">>,
            <<"misc", "c.md">>, <<"help.md">>, <<"_index.md">>} |->
       CASE p = <<"docs", "a.md">> -> SetupDoc
         [] p = <<"docs", "bad.md">> -> ScalarDoc
         [] OTHER -> PlainDoc]

\* config['content_mapping'], each section with its 'type'
Mappings ==
    {[s \in {"docs", "guides"} |-> IF s = "docs" THEN "docs" ELSE t] :
        t \in {"how-to-guides", "tutorials"}}
    \cup {[s \in {"docs"} |-> "docs"]}

Categories == {"tutorials", "how-to-guides", "explanations", "reference"}

NoStats == [total_files |-> 0, converted_files |-> 0, skipped_files |-> 0, error_files |-> 0]
\* the files a run has gone over, by outcome; unwritten holds those of
\* errors whose write raised
NoPaths == [converted |-> {}, skipped |-> {}, errors |-> {}, written |-> {}, unwritten |-> {}]

\* what one file has cost: a document is converted once, whatever the run
Converted == [p \in DOMAIN Documents |-> Convert(DefaultPatterns, Documents[p])]

\* _create_output_structure: the main Hugo directories, content among
\* them; mkdir(exist_ok=True) leaves a directory that exists as it is
Directory == [generated |-> "directory", frontmatter |-> EmptyMap, body |-> <<>>, mtime |-> 0]
OutputStructure ==
    [p \in {<<>>} \cup {<<"..", d>> : d \in {"static", "assets", "data", "layouts",
                                             "archetypes", "i18n"}} |-> Directory]

\* HugoGenerator.generate_config: <output>/hugo.yaml
ConfigFile(time) ==
    [p \in {<<"..", "hugo.yaml">>} |->
       [generated |-> "config", frontmatter |-> EmptyMap, body |-> <<>>, mtime |-> time]]

IndexFile(time) == [generated |-> "index", frontmatter |-> EmptyMap, body |-> <<>>, mtime |-> time]

\* hugo_content, written at `time`
HugoFile(hugo, time) ==
    [generated |-> "document", frontmatter |-> hugo.frontmatter, body |-> hugo.body, mtime |-> time]

\* what open(output_file, 'w') and a write that raises leave behind: the
\* file, holding the beginning of hugo_content
PartFile(time) == [generated |-> "partial", frontmatter |-> EmptyMap, body |-> <<>>, mtime |-> time]

MaxFileSize == 64

NoLimit == [limited |-> FALSE, bytes |-> 0]
Limit(bytes) == [limited |-> TRUE, bytes |-> bytes]

\* the length of a scalar as yaml.dump writes it
ScalarSize(value) ==
    CASE value.kind \in {"str", "int"} -> Len(value.v)
      [] value.kind = "null" -> 4
      [] value.kind = "bool" -> IF value.v THEN 4 ELSE 5
      [] value.kind = "date" -> 10

RECURSIVE DumpSize(_)
\* the length of yaml.dump(frontmatter, default_flow_style=False) for a
\* mapping of plain scalars: a line `key: value` for every key
DumpSize(frontmatter) ==
    IF DOMAIN frontmatter = {} THEN 0
    ELSE DumpSize([k \in DOMAIN frontmatter \ {CHOOSE k \in DOMAIN frontmatter : TRUE} |-> frontmatter[k]])
         + Len(CHOOSE k \in DOMAIN frontmatter : TRUE) + 2
         + ScalarSize(frontmatter[CHOOSE k \in DOMAIN frontmatter : TRUE]) + 1

\* the length of _generate_hugo_markdown(frontmatter, body):
\* f"---\n{frontmatter_yaml}---\n\n{body}"
HugoSize(hugo) == 4 + DumpSize(hugo.frontmatter) + 5 + Len(hugo.body)

\* f.write(hugo_content), or the close that flushes it, raises OSError
\* (EFBIG): the file grows up to the limit and is left so
WriteRaises(limit, hugo) == limit.limited /\ HugoSize(hugo) > limit.bytes

\* with open(path, 'w') as f: f.write(..) for every path of `files`
Write(tree, files) ==
    [p \in DOMAIN tree \cup DOMAIN files |-> IF p \in DOMAIN files THEN files[p] ELSE tree[p]]

\* the files written whatever the run
WriteAlways(dry, tree, files) == Write(tree, files)

\* `if not dry_run:` around the write of _convert_single_file
WriteUnlessDry(dry, tree, files) == IF dry THEN tree ELSE Write(tree, files)

NoCategory == [raised |-> TRUE, v |-> <<>>]

\* a file of an unmapped section keeps its path
OriginalPath(mapping, relative_path) ==
    IF Len(relative_path) = 1 /\ relative_path[1] = "help.md"
    THEN Returned(<<"docs", "reference">> \o relative_path)
    ELSE IF relative_path[1] \in DOMAIN mapping
    THEN Returned(<<mapping[relative_path[1]]>> \o relative_path)
    ELSE Returned(relative_path)

_get_category_path(mapping, relative_path) ==
    LET parts == relative_path
        section_name == parts[1]
    IN IF parts = <<>> THEN Returned(relative_path)
       ELSE IF Len(parts) = 1 /\ parts[1] = "help.md"
            THEN Returned(<<"docs", "reference">> \o <<parts[1]>>)
       ELSE IF section_name \in DOMAIN mapping
            THEN Returned(<<mapping[section_name]>> \o relative_path)
       ELSE NoCategory

_file_needs_conversion(source_file, tree, output_file) ==
    IF output_file \notin DOMAIN tree THEN TRUE
    ELSE source_file.mtime > tree[output_file].mtime

\* the top-level directories of the source tree
Sections(tree) == {p[1] : p \in {q \in DOMAIN tree : Len(q) > 1}}

\* HugoGenerator.generate_section_indices: the main index, the four
\* category indices, and the index of every section under its category
SectionIndices(mapping, tree, time) ==
    LET paths == {<<"_index.md">>}
                 \cup {<<c, "_index.md">> : c \in Categories}
                 \cup {<<(IF s \in DOMAIN mapping THEN mapping[s] ELSE "docs"), s, "_index.md">> :
                         s \in Sections(tree)}
    IN [p \in paths |-> IndexFile(time)]

\* the counters with a failure left uncounted
BumpUnlessError(stats, field) ==
    [stats EXCEPT ![field] = IF field = "error_files" THEN @ ELSE @ + 1]

Bump(stats, field) == [stats EXCEPT ![field] = @ + 1]

InitBatch ==
    /\ content_mapping \in Mappings
    /\ \E files \in SUBSET DOMAIN Documents :
          /\ Cardinality(files) <= MaxFiles
          /\ source = [p \in files |-> [raw |-> Documents[p], mtime |-> 0]]
    /\ output = [p \in {} |-> IndexFile(0)]
    /\ dry_run = FALSE
    /\ incremental = FALSE
    /\ pc = "idle"
    /\ todo = {}
    /\ conversion_stats = NoStats
    /\ run = NoPaths
    /\ runs = 0
    /\ clock = 1
    /\ touched = {}
    /\ history = <<>>
    /\ file_size_limit \in {NoLimit, Limit(MaxFileSize)}

IdleCall == called = "none" /\ content = <<>> /\ result = <<>>

Init == InitBatch /\ IdleCall

\* convert_documentation up to the loop of _convert_content_files
StartRun(dry, incr) ==
    /\ pc = "idle"
    /\ runs < MaxRuns
    /\ dry_run' = dry
    /\ incremental' = incr
    /\ conversion_stats' = NoStats
    /\ run' = NoPaths
    /\ todo' = DOMAIN source
    /\ runs' = runs + 1
    /\ pc' = "loop"
    /\ output' = IF dry THEN output ELSE Write(output, OutputStructure)
    /\ UNCHANGED <<content_mapping, source, clock, touched, history, file_size_limit, call_vars>>

\* one pass of the loop of _convert_content_files
ConvertFile(md_file) ==
    LET relative_path == md_file
        counted == Bump(conversion_stats, "total_files")
        category_path == _get_category_path(content_mapping, relative_path)
        hugo == Converted[md_file]
    IN /\ pc = "loop"
       /\ md_file \in todo
       /\ todo' = todo \ {md_file}
       /\ IF incremental /\ ~_file_needs_conversion(source[md_file], output, relative_path)
          THEN /\ conversion_stats' = Bump(counted, "skipped_files")
               /\ run' = [run EXCEPT !.skipped = @ \cup {md_file}]
               /\ UNCHANGED output
          ELSE IF category_path.raised \/ category_path.v = <<"how-to-guides">>
          THEN /\ conversion_stats' = Bump(counted, "error_files")
               /\ run' = [run EXCEPT !.errors = @ \cup {md_file}]
               /\ UNCHANGED output
          ELSE IF hugo.raised
          THEN /\ conversion_stats' = Bump(counted, "error_files")
               /\ run' = [run EXCEPT !.errors = @ \cup {md_file}]
               /\ UNCHANGED output
          ELSE IF ~dry_run /\ WriteRaises(file_size_limit, hugo)
          THEN /\ conversion_stats' = Bump(counted, "error_files")
               /\ run' = [run EXCEPT !.errors = @ \cup {md_file},
                                     !.unwritten = @ \cup {md_file}]
               /\ output' = Write(output, [p \in {category_path.v} |-> PartFile(clock)])
          ELSE /\ conversion_stats' = Bump(counted, "converted_files")
               /\ run' = [run EXCEPT !.converted = @ \cup {md_file},
                                     !.written = IF dry_run THEN @ ELSE @ \cup {category_path.v}]
               /\ output' = WriteUnlessDry(dry_run, output,
                                           [p \in {category_path.v} |-> HugoFile(hugo, clock)])
       /\ UNCHANGED <<content_mapping, source, dry_run, incremental, pc, runs, clock,
                      touched, history, file_size_limit, call_vars>>

\* convert_documentation after the loop: the configuration and the index
\* files, written when the templates render, and the return of True; the
\* source trees here hold no asset
EndRun(rendered) ==
    /\ pc = "loop"
    /\ todo = {}
    /\ output' = IF dry_run \/ ~rendered THEN output
                 ELSE Write(Write(output, ConfigFile(clock)),
                            SectionIndices(content_mapping, source, clock))
    /\ history' = Append(history, [dry_run |-> dry_run, incremental |-> incremental,
                                   stats |-> conversion_stats, paths |-> run,
                                   touched |-> touched])
    /\ touched' = {}
    /\ clock' = clock + 1
    /\ pc' = "idle"
    /\ UNCHANGED <<content_mapping, source, dry_run, incremental, todo, conversion_stats,
                   run, runs, file_size_limit, call_vars>>

\* a source is modified between two runs
Touch(md_file) ==
    /\ pc = "idle"
    /\ runs \in 1..(MaxRuns - 1)
    /\ md_file \in DOMAIN source
    /\ md_file \notin touched
    /\ source' = [source EXCEPT ![md_file].mtime = clock]
    /\ touched' = touched \cup {md_file}
    /\ UNCHANGED <<content_mapping, output, dry_run, incremental, pc, todo,
                   conversion_stats, run, runs, clock, history, file_size_limit, call_vars>>

Start == \E dry \in BOOLEAN, incr \in BOOLEAN : StartRun(dry, incr)
Step == \E md_file \in DOMAIN source : ConvertFile(md_file)
End == \E rendered \in BOOLEAN : EndRun(rendered)
Modify == \E md_file \in DOMAIN source : Touch(md_file)

Next == Start \/ Step \/ End \/ Modify

Spec == Init /\ [][Next]_vars

-----------------------------------------------------------------------------
(* One function applied to one text.  The converter is at rest.            *)

AtRest ==
    /\ content_mapping = [s \in {"docs"} |-> "docs"]
    /\ source = [p \in {} |-> [raw |-> <<>>, mtime |-> 0]]
    /\ output = [p \in {} |-> IndexFile(0)]
    /\ dry_run = FALSE
    /\ incremental = FALSE
    /\ pc = "idle"
    /\ todo = {}
    /\ conversion_stats = NoStats
    /\ run = NoPaths
    /\ runs = 0
    /\ clock = 1
    /\ touched = {}
    /\ history = <<>>
    /\ file_size_limit = NoLimit

\* the texts made of up to n of the pieces
Texts(pieces, n) == {Concat(ps) : ps \in UNION {[1..k -> pieces] : k \in 1..n}}

\* the texts of up to n of the lines
LinesOf(lines, n) == {Join(ls, <<"\n">>) : ls \in UNION {[1..k -> lines] : k \in 0..n}}

-----------------------------------------------------------------------------
(* _convert_internal_links on one link, alone or inside a sentence         *)

MaxUrlPieces == 3

UrlPieces ==
    ExternalSchemes
    \cup { <<"#">>, <<"a">>, DotMd, <<"/">>, <<".", "/">>, <<".", ".", "/">>, <<" ">>, <<"\n">> }

LinkOpen == <<"[", "G", "]", "(">>
LinkClose == <<")">>

Sentences == { [pre |-> <<>>, post |-> <<>>],
               [pre |-> <<"S", "e", "e", " ">>, post |-> <<".">>] }

LinkTexts ==
    {s.pre \o LinkOpen \o url \o LinkClose \o s.post :
        url \in Texts(UrlPieces, MaxUrlPieces), s \in Sentences}

InitLinks == AtRest /\ called = "none" /\ content \in LinkTexts /\ result = <<>>

ConvertLinks ==
    /\ called = "none"
    /\ called' = "_convert_internal_links"
    /\ result' = _convert_internal_links(content)
    /\ UNCHANGED <<content, batch_vars>>

SpecLinks == InitLinks /\ [][ConvertLinks]_vars

\* the parts of a text of LinkTexts
OpenAt(text) == CHOOSE i \in 1..Len(text) : text[i] = "("
CloseAt(text) == CHOOSE i \in 1..Len(text) : text[i] = ")"
UrlOf(text) == SubSeq(text, OpenAt(text) + 1, CloseAt(text) - 1)
Before(text) == SubSeq(text, 1, OpenAt(text))
After(text) == SubSeq(text, CloseAt(text), Len(text))

Squeezed(url) == SelectSeq(url, LAMBDA c : c \notin WS)

RECURSIVE Unprefixed(_)
\* without its leading relative or root prefix
Unprefixed(p) ==
    IF StartsWith(p, <<".", "/">>) THEN Unprefixed(SubSeq(p, 3, Len(p)))
    ELSE IF StartsWith(p, <<".", ".", "/">>) THEN Unprefixed(SubSeq(p, 4, Len(p)))
    ELSE IF StartsWith(p, <<"/">>) THEN Tail(p)
    ELSE p

BeginsExternal(url) ==
    \/ \E scheme \in ExternalSchemes : StartsWith(url, scheme)
    \/ StartsWith(url, <<"#">>)

\* C2: a link whose url, not external and not an anchor, ends in `.md` is
\* rewritten to `/` + p + `/`, p being the url without its trailing `.md`
\* and without its leading relative or root prefix; every other `.md` in
\* the url stays.
C2_MdLinkTarget ==
    LET url == Squeezed(UrlOf(content))
        p == Unprefixed(SubSeq(url, 1, Len(url) - 3))
    IN (/\ called = "_convert_internal_links"
        /\ ~BeginsExternal(url)
        /\ EndsWith(url, DotMd))
       => result = Before(content) \o <<"/">> \o p \o <<"/">> \o After(content)

\* C3: a link whose url begins with http://, https://, mailto:, tel:,
\* ftp:// or `#` comes out byte for byte as it went in, also when the url
\* ends in `.md` or holds whitespace or line breaks.
C3_ExternalUnchanged ==
    (called = "_convert_internal_links" /\ BeginsExternal(UrlOf(content)))
    => result = content

\* C3, its case: an external url that ends in `.md` and holds a line break
C3_Witness ==
    /\ called = "_convert_internal_links"
    /\ StartsWith(UrlOf(content), <<"m", "a", "i", "l", "t", "o", ":">>)
    /\ EndsWith(UrlOf(content), DotMd)
    /\ \E i \in 1..Len(UrlOf(content)) : UrlOf(content)[i] = "\n"
    /\ result = content

-----------------------------------------------------------------------------
(* _parse_markdown_file on one text, then _convert_frontmatter on the      *)
(* frontmatter it returned                                                 *)

MaxRawLines == 4

RawLines ==
    { <<"-", "-", "-">>, <<"t", "i", "t", "l", "e", ":", " ", "T">>, <<"x">>,
      <<"-", " ", "x">>, <<"[">>, <<>>,
      <<"d", ":", " ", "2", "0", "2", "3", "-", "0", "2", "-", "3", "0">> }

RawTexts ==
    {text \o end : text \in LinesOf(RawLines, MaxRawLines), end \in {<<>>, <<"\n">>}}

InitParse == AtRest /\ called = "none" /\ content \in RawTexts /\ result = <<>>

ParseFile ==
    /\ called = "none"
    /\ called' = "_parse_markdown_file"
    /\ result' = _parse_markdown_file(content)
    /\ UNCHANGED <<content, batch_vars>>

MapFrontmatter ==
    /\ called = "_parse_markdown_file"
    /\ ~result.raised
    /\ called' = "_convert_frontmatter"
    /\ result' = _convert_frontmatter(result.frontmatter)
    /\ UNCHANGED <<content, batch_vars>>

NextParse == ParseFile \/ MapFrontmatter

SpecParse == InitParse /\ [][NextParse]_vars

Delimiter == <<"-", "-", "-", "\n">>

\* C8: _parse_markdown_file never raises, and the text is the consumed
\* frontmatter block followed by the body; when no frontmatter is taken the
\* mapping is empty and the body is the whole text.
C8_ParseTotal ==
    called = "_parse_markdown_file" =>
        /\ ~result.raised
        /\ \/ result.frontmatter = YMap(EmptyMap) /\ result.body = content
           \/ \E k \in 9..Len(content) :
                /\ result.body = SubSeq(content, k + 1, Len(content))
                /\ StartsWith(SubSeq(content, 1, k), Delimiter)
                /\ EndsWith(SubSeq(content, 1, k), <<"\n">> \o Delimiter)

\* C9: the first component of _parse_markdown_file is always a mapping, so
\* _convert_frontmatter applied to it never raises.
C9_FrontmatterIsMapping ==
    /\ (called = "_parse_markdown_file" /\ ~result.raised) => result.frontmatter.kind = "map"
    /\ called = "_convert_frontmatter" => ~result.raised

-----------------------------------------------------------------------------
(* _convert_single_file up to the write, on a document titled T            *)

MaxBodyLines == 4

BodyLines ==
    { <<"#", " ", "T">>, <<"#", " ", "t">>, <<" ", " ", "#", " ", "T", " ">>,
      <<"#", " ", "U">>, <<"x">>, <<>> }

\* "---\ntitle: T\n---\n"
TitledT == Delimiter \o <<"t", "i", "t", "l", "e", ":", " ", "T", "\n">> \o Delimiter

FileTexts == {TitledT \o body : body \in LinesOf(BodyLines, MaxBodyLines)} \cup {SetupDoc}

InitFile == AtRest /\ called = "none" /\ content \in FileTexts /\ result = <<>>

ConvertSingleFile ==
    /\ called = "none"
    /\ called' = "_convert_single_file"
    /\ result' = Convert(DefaultPatterns, content)
    /\ UNCHANGED <<content, batch_vars>>

SpecFile == InitFile /\ [][ConvertSingleFile]_vars

\* "See [here](/other/) and "
SeeHere ==
    <<"S", "e", "e", " ", "[", "h", "e", "r", "e", "]", "(", "/", "o", "t", "h",
      "e", "r", "/", ")", " ", "a", "n", "d", " ">>

ExampleUrl ==
    <<"h", "t", "t", "p", "s", ":", "/", "/", "e", "x", "a", "m", "p", "l", "e",
      ".", "c", "o", "m">>

SetupFrontmatter ==
    [k \in {K_title, K_linkTitle, K_weight} |->
       IF k = K_weight THEN YInt(<<"1">>) ELSE YStr(Setup)]

BodyBefore(text) ==
    Split(Strip(_convert_body_content(DefaultPatterns, _parse_markdown_file(text).body).v), "\n")

IsH1(line) == StartsWith(Strip(line), <<"#", " ">>)
H1Of(line) == Strip(SubSeq(Strip(line), 3, Len(Strip(line))))
SameText(a, b) == LowerStr(a) = LowerStr(b)
H1Count(lines, text) ==
    Cardinality({i \in 1..Len(lines) : IsH1(lines[i]) /\ SameText(H1Of(lines[i]), text)})

\* the first H1 of the lines is at i and repeats the title T
TitleRepeatedAt(lines, i) ==
    /\ i \in 1..Len(lines)
    /\ IsH1(lines[i])
    /\ \A j \in 1..(i - 1) : ~IsH1(lines[j])
    /\ SameText(H1Of(lines[i]), <<"T">>)

\* the first line after i that is not blank, or one past the end
NextHolding(lines, i) ==
    CHOOSE k \in (i + 1)..(Len(lines) + 1) :
        /\ k = Len(lines) + 1 \/ Strip(lines[k]) # <<>>
        /\ \A j \in (i + 1)..(k - 1) : Strip(lines[j]) = <<>>

-----------------------------------------------------------------------------
(* sanitize_for_mdx on one text                                            *)

MaxMdLines == 3

MdLines ==
    { <<"#", "#", " ", "A", " ", "{", "#", "s", "}">>,
      <<"#", "#", " ", "B", " ", "{", "#", "s", "}">>,
      <<"#", "#", " ", "C", " ", "{", "#", "t", "}">>,
      <<"#", " ", "T">>, <<"#", " ", "U">>, <<"x">> }

MdTexts == LinesOf(MdLines, MaxMdLines)

InitSanitize == AtRest /\ called = "none" /\ content \in MdTexts /\ result = <<>>

Sanitize ==
    /\ called = "none"
    /\ called' = "sanitize_for_mdx"
    /\ result' = sanitize_for_mdx(content)
    /\ UNCHANGED <<content, batch_vars>>

SpecSanitize == InitSanitize /\ [][Sanitize]_vars

\* the id a heading line is tagged with, its braces escaped or not
IsTagged(line) == Contains(line, <<"{", "#">>)
TagOf(line) ==
    LET hash == CHOOSE i \in 1..Len(line) :
                    line[i] = "#" /\ \A j \in (i + 1)..Len(line) : line[j] # "#"
    IN SelectSeq(SubSeq(line, hash + 1, Len(line)), LAMBDA c : c \in IdChars)
TagsOf(text) ==
    LET tagged == SelectSeq(Split(text, "\n"), IsTagged)
    IN [i \in 1..Len(tagged) |-> TagOf(tagged[i])]

\* id for the first heading tagged id, id-k for the k-th
Deduplicated(ids) ==
    [i \in 1..Len(ids) |->
       LET k == Cardinality({j \in 1..i : ids[j] = ids[i]})
       IN IF k = 1 THEN ids[i] ELSE ids[i] \o <<"-">> \o IntToStr(k)]

\* C4: the sanitizer makes heading ids unique: of the headings tagged
\* {#id} the first keeps id and the k-th, k > 1, is written with id-k.
C4_HeadingIdsUnique ==
    called = "sanitize_for_mdx" => TagsOf(result) = Deduplicated(TagsOf(content))

-----------------------------------------------------------------------------
(* Properties of convert_documentation                                     *)

\* the files the run in progress, or the last run, has gone over
Done == IF runs = 0 THEN {} ELSE DOMAIN source \ todo

Unmapped(md_file) == md_file[1] \notin DOMAIN content_mapping

Orphan == <<"help.md">>

\* the path ends with the parts of md_file
IsUnder(path, md_file) ==
    /\ Len(path) >= Len(md_file)
    /\ SubSeq(path, Len(path) - Len(md_file) + 1, Len(path)) = md_file

\* a converted document of md_file is among the output files
HasOutput(md_file) ==
    \E p \in DOMAIN output : output[p].generated = "document" /\ IsUnder(p, md_file)

ValidAndUnmapped == {<<"docs", "a.md">>, <<"misc", "c.md">>}

C6_HowToGuidesRejected ==
    \A md_file \in Done :
       (/\ ~Unmapped(md_file)
        /\ content_mapping[md_file[1]] = "how-to-guides"
        /\ md_file \notin run.skipped)
       => md_file \in run.errors /\ md_file \notin run.converted /\ ~HasOutput(md_file)

\* C7: an incremental run right after a full run that wrote its output,
\* with no source modified in between, converts nothing and skips every
\* document the full run converted.
C7_SecondRunSkips ==
    \A i \in 2..Len(history) :
       (/\ history[i].incremental
        /\ ~history[i - 1].incremental
        /\ ~history[i - 1].dry_run
        /\ history[i].touched = {})
       => /\ history[i].stats.converted_files = 0
          /\ history[i - 1].paths.converted \subseteq history[i].paths.skipped

\* C11: the frontmatter of every converted document that has a title has
\* a linkTitle equal to that title, a title taken from the first-level
\* heading included.
C11_LinkTitleFollowsTitle ==
    \A p \in DOMAIN output :
       (output[p].generated = "document" /\ K_title \in DOMAIN output[p].frontmatter)
       => /\ K_linkTitle \in DOMAIN output[p].frontmatter
          /\ output[p].frontmatter[K_linkTitle] = output[p].frontmatter[K_title]

-----------------------------------------------------------------------------
(* _fix_directory_structures on one text, then on its own output           *)

MaxTreeLines == 5

\* "following directory structure:"
PhraseLine ==
    <<"f", "o", "l", "l", "o", "w", "i", "n", "g", " ", "d", "i", "r", "e", "c", "t",
      "o", "r", "y", " ", "s", "t", "r", "u", "c", "t", "u", "r", "e", ":">>

FenceBash == Fence \o <<"b", "a", "s", "h">>

TreeLines ==
    { PhraseLine, Fence, FenceBash, <<Corner, " ", "a">>, <<Branch, " ", "b">>, <<"x">> }

TreeTexts == LinesOf(TreeLines, MaxTreeLines)

InitTree == AtRest /\ called = "none" /\ content \in TreeTexts /\ result = <<>>

FixDirectoryStructures ==
    /\ called = "none"
    /\ called' = "_fix_directory_structures"
    /\ result' = _fix_directory_structures(content)
    /\ UNCHANGED <<content, batch_vars>>

\* the output of the first call is the input of the second
FixAgain ==
    /\ called = "_fix_directory_structures"
    /\ called' = "_fix_directory_structures twice"
    /\ content' = result
    /\ result' = _fix_directory_structures(result)
    /\ UNCHANGED batch_vars

NextTree == FixDirectoryStructures \/ FixAgain

SpecTree == InitTree /\ [][NextTree]_vars

\* C12: _fix_directory_structures applied to its own output returns it
\* unchanged: no fence and no language tag is added the second time.
C12_FixIdempotent ==
    called = "_fix_directory_structures twice" => result = content


HasBox(line) == \E k \in 1..Len(line) : line[k] \in BoxChars
HasFence(line) == Contains(line, Fence)
BeginsCorner(line) == line # <<>> /\ line[1] = Corner

\* the line of the phrase, when it is the only one, a tree begins on the
\* next line and no line holds a fence; 0 otherwise
IntroAt(lines) ==
    IF /\ Cardinality({i \in 1..Len(lines) : lines[i] = PhraseLine}) = 1
       /\ \A i \in 1..Len(lines) : ~HasFence(lines[i])
    THEN LET i == CHOOSE k \in 1..Len(lines) : lines[k] = PhraseLine
         IN IF i < Len(lines) /\ BeginsCorner(lines[i + 1]) THEN i ELSE 0
    ELSE 0

\* the last line of the tree region that begins at line first
TreeEnd(lines, first) ==
    CHOOSE j \in first..Len(lines) :
       /\ \A k \in (first + 1)..j : HasBox(lines[k])
       /\ j < Len(lines) => ~HasBox(lines[j + 1])

\* the introduction, a blank line, the fence tagged text, the tree region
\* whole, the closing fence, the rest
FencedTree(lines, i) ==
    Join(SubSeq(lines, 1, i) \o << <<>>, FenceText >>
         \o SubSeq(lines, i + 1, TreeEnd(lines, i + 1)) \o << Fence >>
         \o SubSeq(lines, TreeEnd(lines, i + 1) + 1, Len(lines)), <<"\n">>)

\* C13: the tree region that follows the phrase `following directory
\* structure` comes out whole inside a fence tagged text, after the
\* introduction and a blank line, the closing fence after its last line.
C13_TreeRegionFenced ==
    (called = "_fix_directory_structures" /\ IntroAt(Split(content, "\n")) # 0)
    => result = FencedTree(Split(content, "\n"), IntroAt(Split(content, "\n")))

IsOpening(lines, i) ==
    /\ HasFence(lines[i])
    /\ Cardinality({k \in 1..i : HasFence(lines[k])}) % 2 = 1

\* every fence is opened by a fence line, tagged or not, and closed by a
\* bare one, and the phrase is on no line
WellFenced(lines) ==
    /\ \A i \in 1..Len(lines) : lines[i] # PhraseLine
    /\ Cardinality({k \in 1..Len(lines) : HasFence(lines[k])}) % 2 = 0
    /\ \A i \in 1..Len(lines) : (HasFence(lines[i]) /\ ~IsOpening(lines, i)) => lines[i] = Fence

\* the opening fences of the blocks that begin with the corner tagged text
Retagged(lines) ==
    Join([i \in 1..Len(lines) |->
            IF IsOpening(lines, i) /\ BeginsCorner(lines[i + 1]) THEN FenceText ELSE lines[i]],
         <<"\n">>)

\* C14: a fenced block whose content begins with the corner character
\* comes out with its opening fence tagged text, whatever tag it had, and
\* its content unchanged.
C14_FencedTreeRetagged ==
    (called = "_fix_directory_structures" /\ WellFenced(Split(content, "\n")))
    => result = Retagged(Split(content, "\n"))

-----------------------------------------------------------------------------
(* _add_language_identifiers_to_code_blocks on one text, under a table of  *)
(* two languages in one order or the other                                 *)

MaxFenceLines == 4

\* the table of DefaultPatterns, bash first
SwappedPatterns ==
    Patterns(<<DefaultPatterns.table[2], DefaultPatterns.table[1]>>)

FenceLines ==
    { Fence, Fence \o <<"p", "y">>, <<"d", "e", "f", " ", "$", " ">>,
      <<"/", "d", "e", "f", " ">>, <<Vertical, "d", "e", "f", " ">>, <<" ">>, <<"x">> }

FenceTexts == LinesOf(FenceLines, MaxFenceLines)

InitAnnotate == AtRest /\ called = "none" /\ content \in FenceTexts /\ result = <<>>

Annotate(language_patterns) ==
    /\ called = "none"
    /\ called' = "_add_language_identifiers_to_code_blocks"
    /\ result' = [language_patterns |-> language_patterns,
                  returned |-> _add_language_identifiers_to_code_blocks(language_patterns, content)]
    /\ UNCHANGED <<content, batch_vars>>

NextAnnotate == \E language_patterns \in {DefaultPatterns, SwappedPatterns} : Annotate(language_patterns)

SpecAnnotate == InitAnnotate /\ [][NextAnnotate]_vars

\* A fence line is a line whose text begins with the marker; the fence
\* lines of a text open and close blocks in turn.  A segment is a block,
\* from its opening line to its closing line or to the end of the text, or
\* a line outside every block.
FenceAt(lines, i) == StartsWith(Strip(lines[i]), Fence)
FenceFlags(lines) == [i \in 1..Len(lines) |-> FenceAt(lines, i)]
FenceRank(flags, i) == Cardinality({k \in 1..i : flags[k]})
Opens(flags, i) == flags[i] /\ FenceRank(flags, i) % 2 = 1
IsLabeled(line) == Strip(SubSeq(Strip(line), 4, Len(Strip(line)))) # <<>>
CloseOf(flags, i) ==
    IF \E j \in (i + 1)..Len(flags) : flags[j]
    THEN CHOOSE j \in (i + 1)..Len(flags) :
            flags[j] /\ \A k \in (i + 1)..(j - 1) : ~flags[k]
    ELSE Len(flags)
SegmentStarts(flags) ==
    {i \in 1..Len(flags) : Opens(flags, i) \/ (~flags[i] /\ FenceRank(flags, i) % 2 = 0)}
SegmentStart(starts, k) ==
    CHOOSE i \in starts : Cardinality({j \in starts : j <= i}) = k
Segment(lines, flags, i) ==
    SubSeq(lines, i, IF Opens(flags, i) THEN CloseOf(flags, i) ELSE i)
SegmentsFrom(lines, flags, starts) ==
    [k \in 1..Cardinality(starts) |-> Segment(lines, flags, SegmentStart(starts, k))]
SegmentsFlagged(lines, flags) == SegmentsFrom(lines, flags, SegmentStarts(flags))
Segments(lines) == SegmentsFlagged(lines, FenceFlags(lines))
IsUnlabeledBlock(segment) == FenceAt(segment, 1) /\ ~IsLabeled(segment[1])

\* the segments of the input that are not unlabeled blocks are segments of
\* the output, at the same place
LabeledKept(before, after) ==
    /\ Len(after) = Len(before)
    /\ \A k \in 1..Len(before) : ~IsUnlabeledBlock(before[k]) => after[k] = before[k]

\* none of the segments is an unlabeled block
AllLabeled(segments) == \A k \in 1..Len(segments) : ~IsUnlabeledBlock(segments[k])

ContentOf(segment) ==
    RStrip(Concat(SelectSeq(Tail(segment), LAMBDA l : ~StartsWith(Strip(l), Fence))), {"\n", "\r"})

\* the first language of the table one of whose substrings is in text
FirstLanguage(table, text) ==
    table[CHOOSE i \in 1..Len(table) :
             /\ \E j \in 1..Len(table[i][2]) : Contains(text, table[i][2][j])
             /\ \A h \in 1..(i - 1) : \A j \in 1..Len(table[h][2]) : ~Contains(text, table[h][2][j])][1]

\* the tag of an unlabeled fence of that content
TagFor(table, text) ==
    IF \A i \in 1..Len(text) : text[i] \in WS THEN Text_
    ELSE IF StartsWith(Strip(text), <<"/">>) \/ \E i \in 1..Len(text) : text[i] \in BoxChars
         THEN Text_
    ELSE IF \E i \in 1..Len(table) : \E j \in 1..Len(table[i][2]) : Contains(text, table[i][2][j])
         THEN FirstLanguage(table, text)
    ELSE Text_

\* every unlabeled block of `before` opens in `after` with the tag of its
\* content
TaggedByContent(table, before, after) ==
    /\ Len(after) = Len(before)
    /\ \A k \in 1..Len(before) :
          IsUnlabeledBlock(before[k])
          => LStrip(after[k][1], WS) = Fence \o TagFor(table, ContentOf(before[k])) \o <<"\n">>

\* C16: an unlabeled fence is tagged text when its content is empty or
\* blank, text when its content begins with `/` or holds a box-drawing
\* character whatever else it holds, otherwise with the first language of
\* the table one of whose substrings occurs in it, otherwise text.
C16_TagByContent ==
    called = "_add_language_identifiers_to_code_blocks"
    => /\ ~result.returned.raised
       /\ TaggedByContent(result.language_patterns.table,
                          Segments(SplitLinesKeepEnds(content)),
                          Segments(SplitLinesKeepEnds(result.returned.v)))

\* C16, its case: an unlabeled fence whose content holds a substring of
\* both languages has been tagged with the first of the table, bash
C16_Witness ==
    /\ called = "_add_language_identifiers_to_code_blocks"
    /\ result.language_patterns = SwappedPatterns
    /\ content = Join(<<Fence, <<"d", "e", "f", " ", "$", " ">>, Fence>>, <<"\n">>)
    /\ result.returned.v = Join(<<Fence \o <<"b", "a", "s", "h">>, <<"d", "e", "f", " ", "$", " ">>, Fence>>, <<"\n">>)
                           \o <<"\n">>


\* the time the writes of the run in progress, or of the last run, bear
RunClock == IF pc = "loop" THEN clock ELSE clock - 1

\* the output file of md_file has been created or written by that run
Modified(md_file) ==
    /\ ~_get_category_path(content_mapping, md_file).raised
    /\ _get_category_path(content_mapping, md_file).v \in DOMAIN output
    /\ output[_get_category_path(content_mapping, md_file).v].generated # "index"
    /\ output[_get_category_path(content_mapping, md_file).v].mtime = RunClock

\* C17: a document whose conversion fails, before or during its write, is
\* counted in error_files and its output file is neither created nor
\* modified; the files written for the other documents stay as written
\* and the run goes over every document.
C17_FailureLeavesNoFile ==
    /\ \A md_file \in run.errors : ~Modified(md_file)
    /\ conversion_stats.error_files = Cardinality(run.errors)
    /\ \A md_file \in Done \ run.skipped : Converted[md_file].raised => md_file \in run.errors
    /\ \A md_file \in run.converted :
          ~dry_run => output[_get_category_path(content_mapping, md_file).v]
                        = HugoFile(Converted[md_file], RunClock)
    /\ \A i \in DOMAIN history : history[i].stats.total_files = Cardinality(DOMAIN source)


\* a step of a dry run: its start, one of its passes, or its end
DryStep == (pc' = "loop" /\ dry_run') \/ (pc = "loop" /\ dry_run)

\* the documents a run converts when it skips nothing
Convertible ==
    {md_file \in DOMAIN source :
        /\ ~_get_category_path(content_mapping, md_file).raised
        /\ ~Converted[md_file].raised}

\* C18: a dry run creates, writes and modifies no file under the output
\* path, incremental or not, and still goes over every document, counting
\* as converted those it transforms.
C18_DryRunWritesNothing ==
    [][/\ DryStep => output' = output
       /\ (DryStep /\ pc = "loop" /\ pc' = "idle")
          => /\ conversion_stats.total_files = Cardinality(DOMAIN source)
             /\ run.written = {}
             /\ run.converted = Convertible \ run.skipped
             /\ conversion_stats.converted_files = Cardinality(run.converted)]_vars

\* C18, its case: after a run that wrote its files, a dry run has gone
\* over the documents and converted one
C18_Witness ==
    /\ Len(history) = 2
    /\ ~history[1].dry_run
    /\ history[1].paths.written # {}
    /\ history[2].dry_run
    /\ history[2].stats.converted_files > 0
    /\ pc = "idle"


\* `#`, whitespace, text
IsFirstLevel(line) == Len(line) >= 3 /\ line[1] = "#" /\ line[2] \in WS

\* the first line that is a first-level heading, 0 when there is none
FirstHeadingAt(lines) ==
    IF \E i \in 1..Len(lines) : IsFirstLevel(lines[i])
    THEN CHOOSE i \in 1..Len(lines) :
            IsFirstLevel(lines[i]) /\ \A j \in 1..(i - 1) : ~IsFirstLevel(lines[j])
    ELSE 0

Without(lines, i) == SubSeq(lines, 1, i - 1) \o SubSeq(lines, i + 1, Len(lines))

\* the lines of the text the sanitizer returned
OutLines(text) == IF text = <<>> THEN <<>> ELSE Split(text, "\n")

\* a line no pass of the sanitizer rewrites: letters, digits, spaces, `#`
IsUntouched(line) ==
    \A i \in 1..Len(line) : line[i] \in Lower \cup Upper \cup Digit \cup {" ", "#"}

\* a line of `after` for every line of `before`, in order
LineForLine(before, after) ==
    /\ Len(after) = Len(before)
    /\ \A k \in 1..Len(before) : IsUntouched(before[k]) => after[k] = before[k]

\* C19: the sanitizer drops at most one line, the first first-level
\* heading; every other line, later first-level headings included, gives
\* one line of the output, in the order of the input.
C19_OnlyFirstHeadingDropped ==
    called = "sanitize_for_mdx"
    => LineForLine(Without(SplitLines(content), FirstHeadingAt(SplitLines(content))),
                   OutLines(result))

\* C19, its case: of two first-level headings the first has been dropped
\* and the second kept
C19_Witness ==
    /\ called = "sanitize_for_mdx"
    /\ content = Join(<< <<"#", " ", "T">>, <<"x">>, <<"#", " ", "T">> >>, <<"\n">>)
    /\ result = Join(<< <<"x">>, <<"#", " ", "T">> >>, <<"\n">>)

\* C20, as claimed: when the first line is not a first-level heading the
\* flag is disarmed by it, no line is dropped and a first-level heading on
\* a later line is kept.
C20_FirstLineDisarms ==
    (/\ called = "sanitize_for_mdx"
     /\ SplitLines(content) # <<>>
     /\ ~IsFirstLevel(SplitLines(content)[1]))
    => LineForLine(SplitLines(content), OutLines(result))

\* C20, amended: the flag is armed at the start and disarmed only by the
\* first line that is a first-level heading: when the first line is not
\* one, the first first-level heading on a later line is dropped, every
\* line before it and after it is kept, and with no such heading no line
\* is dropped.
C20_FirstHeadingDisarms ==
    (/\ called = "sanitize_for_mdx"
     /\ SplitLines(content) # <<>>
     /\ ~IsFirstLevel(SplitLines(content)[1]))
    => /\ Len(OutLines(result))
            = Len(SplitLines(content)) - (IF FirstHeadingAt(SplitLines(content)) = 0 THEN 0 ELSE 1)
       /\ \A k \in 1..Len(SplitLines(content)) :
             IsUntouched(SplitLines(content)[k])
             => \/ k = FirstHeadingAt(SplitLines(content))
                \/ OutLines(result)[IF FirstHeadingAt(SplitLines(content)) \in 1..k THEN k - 1 ELSE k]
                      = SplitLines(content)[k]

\* C20, its case: a heading on the second line has been dropped and the
\* heading after it kept
C20_Witness ==
    /\ called = "sanitize_for_mdx"
    /\ content = Join(<< <<"x">>, <<"#", " ", "T">>, <<"#", " ", "U">> >>, <<"\n">>)
    /\ result = Join(<< <<"x">>, <<"#", " ", "U">> >>, <<"\n">>)

-----------------------------------------------------------------------------
\* the text of a line, its line break left out
LineText(line) == RStrip(line, {"\n", "\r"})

\* the first fence line of the text is bare and the next line that begins
\* with the marker, at i, carries other text
LabelInsideUnlabeled(lines, i) ==
    /\ i \in 2..Len(lines)
    /\ FenceAt(lines, i) /\ IsLabeled(lines[i])
    /\ \E j \in 1..(i - 1) :
          /\ FenceAt(lines, j) /\ ~IsLabeled(lines[j])
          /\ \A k \in 1..(i - 1) : k # j => ~FenceAt(lines, k)

\* C21: inside an unlabeled block only a line whose trimmed text is the
\* fence marker closes the block; a line that begins with the marker and
\* carries other text is content, and is in the output as it is, after the
\* annotated opening fence.
C21_OnlyBareFenceCloses ==
    called = "_add_language_identifiers_to_code_blocks"
    => /\ ~result.returned.raised
       /\ \A i \in 1..Len(SplitLinesKeepEnds(content)) :
             LabelInsideUnlabeled(SplitLinesKeepEnds(content), i)
             => \E k \in 2..Len(SplitLinesKeepEnds(result.returned.v)) :
                   LineText(SplitLinesKeepEnds(result.returned.v)[k])
                   = LineText(SplitLinesKeepEnds(content)[i])

-----------------------------------------------------------------------------
(* sanitize_for_mdx on one line, built of braces, backslashes, backticks,  *)
(* tags and an equals sign                                                 *)

MaxPieces == 3

Workspace == <<"w", "o", "r", "k", "s", "p", "a", "c", "e">>
AttributeName == <<"a", "t", "t", "r", "i", "b", "u", "t", "e", "_", "n", "a", "m", "e">>
IncludeHeader == Include \o <<" ", "<", "h", ">">>

LinePieces ==
    { <<"{">>, <<"}">>, <<BS>>, <<"{", "a", ":", "b", "}">>, <<Backtick>>, CodeClose,
      IncludeHeader, <<"<">> \o Workspace \o <<">">>,
      <<"<", "/">> \o AttributeName \o <<">">>, <<"=">>, <<"x">> }

EscapeLines == Texts(LinePieces, MaxPieces)

InitEscape == AtRest /\ called = "none" /\ content \in EscapeLines /\ result = <<>>

SanitizeOneLine ==
    /\ called = "none"
    /\ called' = "sanitize_for_mdx"
    /\ result' = sanitize_for_mdx(content)
    /\ UNCHANGED <<content, batch_vars>>

SpecEscape == InitEscape /\ [][SanitizeOneLine]_vars

\* the backslashes that directly precede place i of the line
BackslashesBefore(line, i) ==
    Cardinality({k \in 1..(i - 1) : \A j \in k..(i - 1) : line[j] = BS})

\* the character at i is escaped
EscapedAt(line, i) == BackslashesBefore(line, i) % 2 = 1

\* C22: in every line output by sanitize_for_mdx each brace is escaped,
\* that is preceded by an odd number of backslashes: a brace escaped in the
\* input is not escaped a second time.
C22_BracesEscaped ==
    called = "sanitize_for_mdx"
    => \A i \in 1..Len(result) : result[i] \in {"{", "}"} => EscapedAt(result, i)

\* the places of the line where `</code>` stands after k backslashes
CodeCloses(line, k) ==
    {i \in 1..(Len(line) - 6) :
        SubSeq(line, i, i + 6) = CodeClose /\ BackslashesBefore(line, i) = k}

\* the places of the line where `</code` stands
CodeCloseStems(line) ==
    {i \in 1..(Len(line) - 5) : SubSeq(line, i, i + 5) = SubSeq(CodeClose, 1, 6)}

\* C23: on a line with an odd number of backticks every `</code>` leaves
\* the sanitizer as it came, no backslash added before it or inside it; on
\* a line with an even number of backticks every `</code>` is escaped.
C23_CodeCloseByBackticks ==
    called = "sanitize_for_mdx"
    => IF Count(content, Backtick) % 2 = 1
       THEN \A k \in 0..Len(content) :
               Cardinality(CodeCloses(result, k)) = Cardinality(CodeCloses(content, k))
       ELSE \A i \in CodeCloseStems(result) : EscapedAt(result, i)

\* the places of the line where the text stands
Occurrences(line, text) ==
    {i \in 1..(Len(line) - Len(text) + 1) : SubSeq(line, i, i + Len(text) - 1) = text}

\* `#include &lt;h&gt;`
IncludeEntity == Include \o <<" ">> \o Lt \o <<"h">> \o Gt

\* C24: every `#include <h>` of a line leaves the sanitizer as
\* `#include &lt;h&gt;`, no backslash put before its brackets by the
\* generic tag pass, whatever the number of backticks of the line.
C24_IncludeAsEntities ==
    called = "sanitize_for_mdx"
    => /\ Cardinality(Occurrences(result, IncludeEntity))
          = Cardinality(Occurrences(content, IncludeHeader))
       /\ Occurrences(result, Include) = Occurrences(result, IncludeEntity)

\* the places of the line where a custom tag opens, in open or close form
CustomTagsAt(line) ==
    Occurrences(line, <<"<">> \o Workspace) \cup Occurrences(line, <<"<", "/">> \o AttributeName)

\* the place of the first `>` of the line after place i, 0 when none
ClosingAt(line, i) ==
    IF \E j \in (i + 1)..Len(line) : line[j] = ">"
    THEN CHOOSE j \in (i + 1)..Len(line) :
            line[j] = ">" /\ \A k \in (i + 1)..(j - 1) : line[k] # ">"
    ELSE 0

\* C25: each custom tag, in open or close form, leaves the sanitizer
\* escaped exactly once: each of its two angle brackets is preceded by
\* exactly one backslash, whether or not the generic tag pass ran on the
\* line.
C25_CustomTagsEscapedOnce ==
    (/\ called = "sanitize_for_mdx"
     /\ \A i \in CustomTagsAt(content) : BackslashesBefore(content, i) = 0)
    => /\ Cardinality(CustomTagsAt(result)) = Cardinality(CustomTagsAt(content))
       /\ \A i \in CustomTagsAt(result) :
             /\ BackslashesBefore(result, i) = 1
             /\ ClosingAt(result, i) # 0
             /\ BackslashesBefore(result, ClosingAt(result, i)) = 1

-----------------------------------------------------------------------------
(* _add_language_identifiers_to_code_blocks under a configuration with no  *)
(* `code_language_patterns`                                                *)

AnnotateUnconfigured == Annotate(NoPatterns)

SpecUnconfigured == InitAnnotate /\ [][AnnotateUnconfigured]_vars

\* C26: with no table of language patterns in the configuration the
\* annotator does not fail: every unlabeled fence is annotated, text when
\* its content is not empty and is not a directory listing.
C26_NoTableFallsBack ==
    called = "_add_language_identifiers_to_code_blocks"
    => /\ ~result.returned.raised
       /\ TaggedByContent(<<>>, Segments(SplitLinesKeepEnds(content)),
                          Segments(SplitLinesKeepEnds(result.returned.v)))

-----------------------------------------------------------------------------
(* sanitize_for_mdx called on one document after another, a line a step.   *)
(* The locals of a call are out_lines, seen_ids and skip_first_heading;    *)
(* the registry and the flag as the call before left them are kept beside  *)
(* them.                                                                   *)

MaxCalls == 3
MaxDocLines == 2

SessionLines ==
    { <<"#", " ", "T">>, <<"#", " ", "U">>,
      <<"#", "#", " ", "A", " ", "{", "#", "s", "}">>, <<"x">> }

SessionTexts == LinesOf(SessionLines, MaxDocLines)

\* nothing left: no call has returned yet
NothingLeft == [seen_ids |-> NoIds, skip_first_heading |-> TRUE]

\* the registry and the flag of the locals of a call that has returned
Left(locals) ==
    [seen_ids |-> locals.seen_ids, skip_first_heading |-> locals.skip_first_heading]

\* the locals as the registry and the flag of the call before left them
LocalsLeft(left) ==
    [out_lines |-> <<>>, seen_ids |-> left.seen_ids,
     skip_first_heading |-> left.skip_first_heading]

\* out_lines = [], seen_ids = {}, skip_first_heading = True, whatever the
\* call before has left
Locals(left) == [out_lines |-> <<>>, seen_ids |-> NoIds, skip_first_heading |-> TRUE]

\* one pass of the loop over the lines
LoopBody(locals, ln, d) ==
    IF SkipHeading(locals.skip_first_heading, ln)
    THEN [locals EXCEPT !.skip_first_heading = FALSE]
    ELSE [locals EXCEPT !.out_lines = Append(@, d.ln), !.seen_ids = d.seen_ids]

InitSession ==
    /\ AtRest
    /\ called = "none"
    /\ content = <<>>
    /\ result = [calls |-> 0, lines |-> <<>>, locals |-> Locals(NothingLeft),
                 left |-> NothingLeft, returned |-> <<>>]

CallSanitize(md_text) ==
    /\ called \in {"none", "returned"}
    /\ result.calls < MaxCalls
    /\ called' = "sanitize_for_mdx"
    /\ content' = md_text
    /\ result' = [result EXCEPT !.calls = @ + 1, !.lines = SplitLines(md_text),
                                !.left = Left(result.locals),
                                !.locals = Locals(Left(result.locals)),
                                !.returned = <<>>]
    /\ UNCHANGED batch_vars

LoopLine ==
    /\ called = "sanitize_for_mdx"
    /\ result.lines # <<>>
    /\ result' = [result EXCEPT
                    !.lines = Tail(@),
                    !.locals = LoopBody(@, Head(result.lines),
                                        DedupHeadingId(SanitizeLine(Head(result.lines)),
                                                       result.locals.seen_ids))]
    /\ UNCHANGED <<called, content, batch_vars>>

ReturnSanitized ==
    /\ called = "sanitize_for_mdx"
    /\ result.lines = <<>>
    /\ called' = "returned"
    /\ result' = [result EXCEPT !.returned = Join(result.locals.out_lines, <<"\n">>)]
    /\ UNCHANGED <<content, batch_vars>>

NextSession ==
    \/ \E md_text \in SessionTexts : CallSanitize(md_text)
    \/ LoopLine
    \/ ReturnSanitized

SpecSession == InitSession /\ [][NextSession]_vars

\* C27: the output of sanitize_for_mdx for a document depends on the text
\* of that document only: after any sequence of other documents the call
\* returns what it returns for the document alone.
C27_OutputDependsOnTextOnly ==
    called = "returned" => result.returned = sanitize_for_mdx(content)

\* C27, its case: a document that begins with a first-level heading has
\* been sanitized after a call that left the flag disarmed, and the heading
\* is dropped again
C27_Witness ==
    /\ called = "returned"
    /\ result.calls > 1
    /\ ~result.left.skip_first_heading
    /\ content = Join(<<<<"#", " ", "T">>, <<"x">>>>, <<"\n">>)
    /\ result.returned = <<"x">>

-----------------------------------------------------------------------------
\* C28: after every pass of the loop of _convert_content_files, and at its
\* return, total_files = converted_files + skipped_files + error_files,
\* each document gone over is counted in exactly one of the three, and at
\* the return total_files is the number of documents of the source tree.
C28_CountersAddUp ==
    /\ conversion_stats.total_files
       = conversion_stats.converted_files + conversion_stats.skipped_files
         + conversion_stats.error_files
    /\ conversion_stats.converted_files = Cardinality(run.converted)
    /\ conversion_stats.skipped_files = Cardinality(run.skipped)
    /\ conversion_stats.error_files = Cardinality(run.errors)
    /\ run.converted \cap run.skipped = {}
    /\ run.converted \cap run.errors = {}
    /\ run.skipped \cap run.errors = {}
    /\ pc = "loop" => run.converted \cup run.skipped \cup run.errors = DOMAIN source \ todo
    /\ (pc = "idle" /\ runs > 0) => conversion_stats.total_files = Cardinality(DOMAIN source)

\* C28, its case: a run has returned with a document skipped and a
\* document whose conversion failed
C28_Witness ==
    /\ pc = "idle"
    /\ runs > 0
    /\ conversion_stats.skipped_files = 1
    /\ conversion_stats.error_files = 1
    /\ conversion_stats.total_files = 2

-----------------------------------------------------------------------------
\* a root-relative path: one `/` at its beginning, one at its end, a
\* segment between them
WellFormedTarget(target) ==
    /\ Len(target) >= 3
    /\ target[1] = "/" /\ target[2] # "/"
    /\ target[Len(target)] = "/" /\ target[Len(target) - 1] # "/"

\* C29: every link target that _convert_internal_links writes when it
\* rewrites a link, the link of a `.md` file or of a directory, is a
\* root-relative path that begins with exactly one `/`, ends with exactly
\* one `/` and is never `//`.
C29_TargetsWellFormed ==
    (called = "_convert_internal_links" /\ result # content)
    => WellFormedTarget(UrlOf(result))

-----------------------------------------------------------------------------
(* scripts/generate_llms.py: build_sections over the tabs of the           *)
(* navigation, a tab a step, and the section paths of build_outputs        *)

MaxTabs == 3

\* SLUG_TOKEN_RE = r"[^a-z0-9]+"
SLUG_TOKEN_RE == Plus(NotIn(Lower \cup {DigitStr[i] : i \in 1..10}))
Hyphen(s, m) == <<"-">>

\* SLUG_TOKEN_RE.sub("-", label.lower()).strip("-") or "section"
BaseSlug(label) ==
    LET slug == LStrip(RStrip(ReSub(SLUG_TOKEN_RE, Hyphen, LowerStr(label)), {"-"}), {"-"})
    IN IF slug = <<>> THEN <<"s", "e", "c", "t", "i", "o", "n">> ELSE slug

\* used.get(slug) after the call
UsedAfter(used, slug) ==
    [s \in DOMAIN used \cup {slug} |->
       IF s # slug THEN used[s] ELSE IF slug \in DOMAIN used THEN used[slug] + 1 ELSE 1]

\* the slug returned for a label whose base slug is `slug`, and `used`
\* after the call
Slugified(slug, used) ==
    [slug |-> IF slug \notin DOMAIN used THEN slug
              ELSE slug \o <<"-">> \o IntToStr(used[slug] + 1),
     used |-> UsedAfter(used, slug)]

slugify(label, used) == Slugified(BaseSlug(label), used)

\* the names a tab may bear, and whether one of its groups holds a
\* document
TabNames ==
    { <<"A">>, <<"a">>, <<"A", " ", "2">>, <<"A", " ", "3">>, <<"!">>,
      <<"S", "e", "c", "t", "i", "o", "n">> }
Tabs == [tab : TabNames, documented : BOOLEAN]

Navigations == UNION {[1..k -> Tabs] : k \in 0..MaxTabs}

\* f"llms-section-{section.slug}.txt"
SectionPath(slug) ==
    <<"l", "l", "m", "s", "-", "s", "e", "c", "t", "i", "o", "n", "-">> \o slug
    \o <<".", "t", "x", "t">>

\* section_paths of build_outputs: the path of each slug
section_paths(sections) ==
    [slug \in {sections[i].slug : i \in 1..Len(sections)} |-> SectionPath(slug)]

NoUsed == [s \in {} |-> 0]

InitSections ==
    /\ AtRest
    /\ called = "build_sections"
    /\ content \in Navigations
    /\ result = [tabs |-> content, used_slugs |-> NoUsed, sections |-> <<>>,
                 section_paths |-> section_paths(<<>>)]

\* one pass of the loop of build_sections over a tab without documents
SkipTab ==
    /\ called = "build_sections"
    /\ result.tabs # <<>>
    /\ ~Head(result.tabs).documented
    /\ result' = [result EXCEPT !.tabs = Tail(@)]
    /\ UNCHANGED <<called, content, batch_vars>>

\* one pass of the loop over a tab with documents
AddSection ==
    /\ called = "build_sections"
    /\ result.tabs # <<>>
    /\ Head(result.tabs).documented
    /\ result' = [result EXCEPT
                    !.tabs = Tail(@),
                    !.used_slugs = slugify(Head(result.tabs).tab, @).used,
                    !.sections = Append(@, [title |-> Head(result.tabs).tab,
                                            slug |-> slugify(Head(result.tabs).tab,
                                                             result.used_slugs).slug])]
    /\ UNCHANGED <<called, content, batch_vars>>

\* the return of build_sections, and section_paths built from it
BuildOutputs ==
    /\ called = "build_sections"
    /\ result.tabs = <<>>
    /\ called' = "build_outputs"
    /\ result' = [result EXCEPT !.section_paths = section_paths(result.sections)]
    /\ UNCHANGED <<content, batch_vars>>

NextSections == SkipTab \/ AddSection \/ BuildOutputs

SpecSections == InitSections /\ [][NextSections]_vars

\* C30: the slugs given to the sections of any sequence of tab names are
\* pairwise distinct, also when a name ends in a numeric suffix, so that
\* every section has a path of its own.
C30_SlugsDistinct ==
    /\ called \in {"build_sections", "build_outputs"}
       => \A i, j \in 1..Len(result.sections) :
             i # j => result.sections[i].slug # result.sections[j].slug
    /\ called = "build_outputs"
       => Cardinality({result.section_paths[s] : s \in DOMAIN result.section_paths})
          = Len(result.sections)

=============================================================================
